---- MODULE Spec2Model ----
(***************************************************************************)
(* AIS NMEA decoder (AISDecoder in ais_decoder.py): the sentence parser    *)
(* with its multipart reassembly table, the TTL sweep, the front of the    *)
(* payload decoder (armor to bits, header, dispatch by message type) and   *)
(* the decoders of the position reports, the binary messages and the       *)
(* channel management message with the field decoders they share.          *)
(*                                                                         *)
(* Strings are sequences of one-character strings; time.time() is an       *)
(* integer number of seconds.                                              *)
(***************************************************************************)
EXTENDS Integers, Sequences, FiniteSets, TLC

VARIABLES
    multipart_messages,  \* AISDecoder.multipart_messages: key -> entry
    now,                 \* the wall clock that time.time() reads
    op,                  \* the call that produced this state
    nmea_message,        \* the argument of the call, when op is "parse"
    result,              \* the value the call returned, when op is "parse"
    keys_to_remove,      \* the keys the call removed, when op is "cleanup"
    group,               \* the multi-fragment group under delivery, if any
    order,               \* the fragment indices of the group delivered so far
    outcomes,            \* the values returned for them, in order of delivery
    call,                \* the last call of a function that reads no table
    decoder,             \* the AISDecoder instance the last call went through
    owned,               \* instance -> the fragments parsed through it alone
    pc,                  \* thread -> the statement it executes next
    frame                \* thread -> the local variables of its call

vars == <<multipart_messages, now, op, nmea_message, result, keys_to_remove,
          group, order, outcomes, call, decoder, owned, pc, frame>>

\* the variables that follow the delivery of one group
delivery == <<group, order, outcomes>>

\* the variables that follow the decoder instances
instances == <<decoder, owned>>

\* the variables of the threads of app.py
threads == <<pc, frame>>

-----------------------------------------------------------------------------
(* Characters and strings *)

\* the printable ASCII characters, codes 32 to 126 in order
Printable ==
    <<" ", "!", "\"", "#", "$", "%", "&", "'", "(", ")", "*", "+",
       ",", "-", ".", "/", "0", "1", "2", "3", "4", "5", "6", "7",
       "8", "9", ":", ";", "<", "=", ">", "?", "@", "A", "B", "C",
       "D", "E", "F", "G", "H", "I", "J", "K", "L", "M", "N", "O",
       "P", "Q", "R", "S", "T", "U", "V", "W", "X", "Y", "Z", "[",
       "\\", "]", "^", "_", "BACKQUOTE", "a", "b", "c", "d", "e", "f", "g",
       "h", "i", "j", "k", "l", "m", "n", "o", "p", "q", "r", "s",
       "t", "u", "v", "w", "x", "y", "z", "{", "|", "}", "~">>

\* ord(): the ASCII code of a character
Ord ==
    [c \in {Printable[i] : i \in 1..Len(Printable)} |->
        31 + (CHOOSE i \in 1..Len(Printable) : Printable[i] = c)]

\* s.startswith(prefix)
startswith(s, prefix) ==
    /\ Len(s) >= Len(prefix)
    /\ SubSeq(s, 1, Len(prefix)) = prefix

\* s.find(sep) + 1: the position of the first sep in s, 0 if there is none
find(s, sep) ==
    LET at == {i \in 1..Len(s) : s[i] = sep}
    IN  IF at = {} THEN 0 ELSE CHOOSE i \in at : \A j \in at : i <= j

\* s.split(sep) for a one-character separator
split(s, sep) ==
    LET at == {i \in 1..Len(s) : s[i] = sep}
        n == Cardinality(at)
        \* the position of the k-th separator; 0 and Len(s) + 1 at the ends
        pos(k) == IF k = 0 THEN 0
                  ELSE IF k = n + 1 THEN Len(s) + 1
                  ELSE CHOOSE i \in at : Cardinality({j \in at : j < i}) = k - 1
    IN  [k \in 1..(n + 1) |-> SubSeq(s, pos(k - 1) + 1, pos(k) - 1)]

IsDigit(c) == Ord[c] \in 48..57

RECURSIVE DigitsValue(_)
DigitsValue(s) ==
    IF s = <<>> THEN 0
    ELSE 10 * DigitsValue(SubSeq(s, 1, Len(s) - 1)) + (Ord[s[Len(s)]] - 48)

AllDigits(s) == s # <<>> /\ \A i \in 1..Len(s) : IsDigit(s[i])

\* int(s): ok is FALSE where Python raises ValueError
int(s) ==
    IF AllDigits(s) THEN [ok |-> TRUE, val |-> DigitsValue(s)]
    ELSE IF Len(s) > 1 /\ s[1] \in {"-", "+"} /\ AllDigits(Tail(s))
         THEN [ok |-> TRUE,
               val |-> IF s[1] = "-" THEN 0 - DigitsValue(Tail(s))
                       ELSE DigitsValue(Tail(s))]
    ELSE [ok |-> FALSE, val |-> 0]

-----------------------------------------------------------------------------
(* Bits *)

Pow2(n) == 2 ^ n

\* format(v, '06b'): six bits, most significant first
format06b(v) == [i \in 1..6 |-> (v \div Pow2(6 - i)) % 2]

\* bits[a:b] of a bitstring: a Python slice, cut short at the end of the buffer
Slice(bits, a, b) ==
    IF b > Len(bits) THEN SubSeq(bits, a + 1, Len(bits))
    ELSE SubSeq(bits, a + 1, b)

\* .uint of a bit sequence
RECURSIVE uint(_)
uint(b) ==
    IF Len(b) = 0 THEN 0
    ELSE IF Len(b) = 1 THEN b[1]
    ELSE LET h == Len(b) \div 2
         IN  uint(SubSeq(b, 1, h)) * Pow2(Len(b) - h)
             + uint(SubSeq(b, h + 1, Len(b)))

\* the test of decode_payload on one payload character
ValidArmorChar(char) == Ord[char] >= 48 /\ Ord[char] <= 119

\* the six bits decode_payload appends for one payload character
ArmorBits(char) ==
    IF ValidArmorChar(char)
    THEN format06b((Ord[char] - 48) % 64)
    ELSE <<0, 0, 0, 0, 0, 0>>

\* binary_data of decode_payload: the bits of the whole payload
RECURSIVE binary_data(_)
binary_data(payload) ==
    IF Len(payload) = 0 THEN <<>>
    ELSE IF Len(payload) = 1 THEN ArmorBits(payload[1])
    ELSE LET h == Len(payload) \div 2
         IN  binary_data(SubSeq(payload, 1, h))
             \o binary_data(SubSeq(payload, h + 1, Len(payload)))

-----------------------------------------------------------------------------
(* decode_sixbit_ascii *)

\* chr(code) of a printable code
chr(code) == Printable[code - 31]

\* the character of a six-bit code with the offset of the letters at 32
SixbitChar_Offset32(char_code) ==
    IF char_code = 0 THEN "@"
    ELSE IF char_code <= 31 THEN chr(char_code + 32)
    ELSE IF char_code <= 63 THEN chr(char_code)
    ELSE "?"

\* the character the loop of decode_sixbit_ascii appends for a six-bit code
SixbitChar(char_code) ==
    IF char_code = 0 THEN "@"
    ELSE IF char_code <= 31 THEN chr(char_code + 64)
    ELSE IF char_code <= 63 THEN chr(char_code)
    ELSE "?"

\* result at the end of the loop: one character for every i in
\* range(length) whose six bits lie within the buffer
sixbit_result(bits, start_pos, length) ==
    LET n == Cardinality({i \in 0..(length - 1) :
                             start_pos + (i + 1) * 6 <= Len(bits)})
    IN  [i \in 1..n |->
            SixbitChar(uint(Slice(bits, start_pos + (i - 1) * 6,
                                  start_pos + i * 6)))]

\* the characters str.strip() removes, of those a six-bit code can give
whitespace == {" "}

\* s.strip(chars): s without the characters of chars at either end
strip(s, chars) ==
    LET keep == {i \in 1..Len(s) : s[i] \notin chars}
    IN  IF keep = {} THEN <<>>
        ELSE SubSeq(s, CHOOSE i \in keep : \A j \in keep : i <= j,
                       CHOOSE i \in keep : \A j \in keep : i >= j)

\* decode_sixbit_ascii(bits, start_pos, length)
decode_sixbit_ascii(bits, start_pos, length) ==
    strip(strip(sixbit_result(bits, start_pos, length), {"@"}), whitespace)

\* the slices bits[a:b] that decode_sixbit_ascii(bits, start_pos, length)
\* reads, as pairs <<a, b>>
sixbit_reads(bits, start_pos, length) ==
    {<<start_pos + i * 6, start_pos + (i + 1) * 6>> :
        i \in {j \in 0..(length - 1) : start_pos + (j + 1) * 6 <= Len(bits)}}

-----------------------------------------------------------------------------
(* Coordinates *)

\* the number raw / divider; the numbers of a decoded record are written as
\* a numerator and a denominator
Quotient(raw, divider) == [num |-> raw, den |-> divider]

\* -limit <= raw / divider <= limit
WithinLimit(raw, divider, limit) ==
    -limit * divider <= raw /\ raw <= limit * divider

\* one coordinate of the validate_and_convert functions: the value and the
\* status for a raw value, na being the raw value of "not available"
Coordinate(raw, na, divider, limit, na_status) ==
    IF raw = na THEN [value |-> [None |-> TRUE], status |-> na_status]
    ELSE IF WithinLimit(raw, divider, limit)
    THEN [value |-> Quotient(raw, divider), status |-> "Valid"]
    ELSE [value |-> [None |-> TRUE], status |-> "Invalid value"]

\* validate_and_convert_coordinates(lon_raw, lat_raw): 1/10000 minute
validate_and_convert_coordinates(lon_raw, lat_raw) ==
    LET lon == Coordinate(lon_raw, 108600000, 600000, 180, "Not available")
        lat == Coordinate(lat_raw, 54600000, 600000, 90, "Not available")
    IN  [longitude |-> lon.value, longitude_status |-> lon.status,
         latitude |-> lat.value, latitude_status |-> lat.status]

\* validate_and_convert_coordinates_long_range(lon_raw, lat_raw): 1/10 minute
validate_and_convert_coordinates_long_range(lon_raw, lat_raw) ==
    LET lon == Coordinate(lon_raw, 108600, 600, 180,
                          "Position older than 6 hours or not available")
        lat == Coordinate(lat_raw, 54600, 600, 90,
                          "Position older than 6 hours or not available")
    IN  [longitude |-> lon.value, longitude_status |-> lon.status,
         latitude |-> lat.value, latitude_status |-> lat.status]

\* validate_and_convert_coordinates_dgnss(lon_raw, lat_raw): 1/10 minute
validate_and_convert_coordinates_dgnss(lon_raw, lat_raw) ==
    LET lon == Coordinate(lon_raw, 18100, 600, 180, "Not available")
        lat == Coordinate(lat_raw, 9100, 600, 90, "Not available")
    IN  [longitude |-> lon.value, longitude_status |-> lon.status,
         latitude |-> lat.value, latitude_status |-> lat.status]

\* validate_and_convert_coordinates_area(ne_lon, ne_lat, sw_lon, sw_lat,
\* format_type): the two corners of an area
validate_and_convert_coordinates_area(ne_lon, ne_lat, sw_lon, sw_lat, format_type) ==
    LET divider == IF format_type = "tenth_minute" THEN 600 ELSE 600000
        na_lon == IF format_type = "tenth_minute" THEN 181 * 10
                  ELSE 181 * 60 * 10000
        na_lat == IF format_type = "tenth_minute" THEN 91 * 10
                  ELSE 91 * 60 * 10000
        nel == Coordinate(ne_lon, na_lon, divider, 180, "Not available")
        nea == Coordinate(ne_lat, na_lat, divider, 90, "Not available")
        swl == Coordinate(sw_lon, na_lon, divider, 180, "Not available")
        swa == Coordinate(sw_lat, na_lat, divider, 90, "Not available")
    IN  [ne_longitude |-> nel.value, ne_longitude_status |-> nel.status,
         ne_latitude |-> nea.value, ne_latitude_status |-> nea.status,
         sw_longitude |-> swl.value, sw_longitude_status |-> swl.status,
         sw_latitude |-> swa.value, sw_latitude_status |-> swa.status]

-----------------------------------------------------------------------------
(* get_positions_dimensions *)

\* the entries of a record: the fields of r and those of s
Update(r, s) ==
    [k \in DOMAIN r \cup DOMAIN s |-> IF k \in DOMAIN s THEN s[k] ELSE r[k]]

\* get_positions_dimensions(bits, start_bit)
get_positions_dimensions(bits, start_bit) ==
    LET dim_a == uint(Slice(bits, start_bit, start_bit + 9))
        dim_b == uint(Slice(bits, start_bit + 9, start_bit + 18))
        dim_c == uint(Slice(bits, start_bit + 18, start_bit + 24))
        dim_d == uint(Slice(bits, start_bit + 24, start_bit + 30))
        status ==
            [dimensions_status |->
                IF dim_a = 0 /\ dim_b = 0 /\ dim_c = 0 /\ dim_d = 0
                THEN "Not available or virtual AtoN"
                ELSE IF dim_a = 0 /\ dim_c = 0 /\ dim_b > 0 /\ dim_d > 0
                THEN "Reference point not available, ship dimensions provided"
                ELSE "Normal reference point and dimensions"]
        length == IF dim_a > 0 \/ dim_b > 0
                  THEN [length |-> dim_a + dim_b,
                        ref_point_distance_from_bow |-> dim_a,
                        ref_point_distance_from_stern |-> dim_b]
                  ELSE <<>>
        width == IF dim_c > 0 \/ dim_d > 0
                 THEN [width |-> dim_c + dim_d,
                       ref_point_distance_from_port |-> dim_c,
                       ref_point_distance_from_starboard |-> dim_d]
                 ELSE <<>>
    IN  Update(Update(status, length), width)

-----------------------------------------------------------------------------
(* decode_communication_state *)

\* comm_state["sync_state_text"]
sync_state_text(sync_state) ==
    IF sync_state = 0 THEN "UTC Direct"
    ELSE IF sync_state = 1 THEN "UTC Indirect"
    ELSE IF sync_state = 2 THEN "Base station synchronized"
    ELSE IF sync_state = 3 THEN "Other station synchronized"
    ELSE "Unknown"

\* the branch if comm_state_flag == 0 (SOTDMA): the entries it adds
sotdma_state(bits, start_bit) ==
    LET slot_timeout == uint(Slice(bits, start_bit + 2, start_bit + 5))
        field == uint(Slice(bits, start_bit + 5, start_bit + 19))
        hour == uint(Slice(bits, start_bit + 5, start_bit + 10))
        minute == uint(Slice(bits, start_bit + 10, start_bit + 17))
    IN  Update([slot_timeout |-> slot_timeout],
               IF slot_timeout \in {3, 5, 7}
               THEN [received_stations |-> field]
               ELSE IF slot_timeout \in {2, 4, 6}
               THEN [slot_number |-> field]
               ELSE IF slot_timeout = 1
               THEN [utc_hour |-> IF hour <= 23 THEN Quotient(hour, 1)
                                  ELSE [None |-> TRUE],
                     utc_minute |-> IF minute <= 59 THEN Quotient(minute, 1)
                                    ELSE [None |-> TRUE]]
               ELSE [slot_offset |-> field])

\* the branch else (ITDMA): the entries it adds
itdma_state(bits, start_bit) ==
    LET slot_increment == uint(Slice(bits, start_bit + 2, start_bit + 15))
        num_slots == uint(Slice(bits, start_bit + 15, start_bit + 18))
        keep_flag == uint(Slice(bits, start_bit + 18, start_bit + 19))
    IN  Update([slot_increment |-> slot_increment,
                keep_flag |-> (keep_flag = 1)],
               IF num_slots <= 4
               THEN [number_of_slots |-> num_slots + 1]
               ELSE [number_of_slots |-> (num_slots - 4) + 1,
                     slot_offset |-> slot_increment + 8192])

\* decode_communication_state(bits, comm_state_flag, start_bit)
decode_communication_state(bits, comm_state_flag, start_bit) ==
    LET sync_state == uint(Slice(bits, start_bit, start_bit + 2))
    IN  Update([sync_state |-> sync_state,
                sync_state_text |-> sync_state_text(sync_state)],
               IF comm_state_flag = 0 THEN sotdma_state(bits, start_bit)
               ELSE itdma_state(bits, start_bit))

\* the slices that decode_communication_state(bits, comm_state_flag,
\* start_bit) reads
communication_state_reads(bits, comm_state_flag, start_bit) ==
    LET s == start_bit
        slot_timeout == uint(Slice(bits, s + 2, s + 5))
    IN  {<<s, s + 2>>}
        \cup (IF comm_state_flag = 0
              THEN {<<s + 2, s + 5>>}
                   \cup (IF slot_timeout = 1
                         THEN {<<s + 5, s + 10>>, <<s + 10, s + 17>>}
                         ELSE {<<s + 5, s + 19>>})
              ELSE {<<s + 2, s + 15>>, <<s + 15, s + 18>>,
                    <<s + 18, s + 19>>})

\* decoded['communication_state'] of _decode_position_report_class_a
\* (messages 1, 2 and 3), for a buffer of at least 168 bits
class_a_communication_state(bits) ==
    LET comm_state_flag == IF uint(Slice(bits, 0, 6)) \in {1, 2} THEN 0 ELSE 1
    IN  decode_communication_state(bits, comm_state_flag, 149)

\* decoded['communication_state'] of _decode_base_station_report (messages 4
\* and 11), for a buffer of at least 168 bits
base_station_communication_state(bits) ==
    decode_communication_state(bits, 0, 149)

\* decoded['communication_state'] of _decode_sar_position (message 9)
sar_communication_state(bits) ==
    LET comm_selector == uint(Slice(bits, 148, 149))
    IN  decode_communication_state(bits, comm_selector, 149)

\* decoded['communication_state'] of _decode_position_report_class_b
\* (message 18)
class_b_communication_state(bits) ==
    LET comm_selector == uint(Slice(bits, 148, 149))
    IN  IF comm_selector = 1
        THEN decode_communication_state(bits, 1, 149)
        ELSE decode_communication_state(bits, 0, 149)

-----------------------------------------------------------------------------
(* _decode_position_report_class_a *)

\* .int of a bit sequence: two's complement
sint(b) ==
    IF Len(b) > 0 /\ b[1] = 1 THEN uint(b) - Pow2(Len(b)) ELSE uint(b)

\* the entries of the position report read from bits 38 to 143, but for the
\* rate of turn in degrees
decode_position_report_class_a(bits) ==
    LET rot_raw == sint(Slice(bits, 42, 50))
        sog_raw == uint(Slice(bits, 50, 60))
        lon_raw == sint(Slice(bits, 61, 89))
        lat_raw == sint(Slice(bits, 89, 116))
        position == validate_and_convert_coordinates(lon_raw, lat_raw)
        cog_raw == uint(Slice(bits, 116, 128))
        hdg_raw == uint(Slice(bits, 128, 137))
    IN  [nav_status |-> uint(Slice(bits, 38, 42)),
         rot_raw |-> rot_raw,
         sog |-> IF sog_raw = 1023 THEN [None |-> TRUE]
                 ELSE IF sog_raw = 1022 THEN Quotient(1022, 10)
                 ELSE Quotient(sog_raw, 10),
         sog_status |-> IF sog_raw = 1023 THEN "Not available"
                        ELSE IF sog_raw = 1022 THEN "102.2 knots or higher"
                        ELSE "Valid",
         position_accuracy |-> uint(Slice(bits, 60, 61)),
         longitude |-> position.longitude,
         longitude_status |-> position.longitude_status,
         latitude |-> position.latitude,
         latitude_status |-> position.latitude_status,
         cog |-> IF cog_raw = 3600 THEN [None |-> TRUE]
                 ELSE IF 3601 <= cog_raw /\ cog_raw <= 4095
                 THEN [None |-> TRUE]
                 ELSE Quotient(cog_raw, 10),
         cog_status |-> IF cog_raw = 3600 THEN "Not available"
                        ELSE IF 3601 <= cog_raw /\ cog_raw <= 4095
                        THEN "Invalid value"
                        ELSE "Valid",
         true_heading |-> IF hdg_raw = 511 THEN [None |-> TRUE]
                          ELSE IF hdg_raw > 359 THEN [None |-> TRUE]
                          ELSE Quotient(hdg_raw, 1),
         true_heading_status |-> IF hdg_raw = 511 THEN "Not available"
                                 ELSE IF hdg_raw > 359 THEN "Invalid value"
                                 ELSE "Valid",
         timestamp_field |-> uint(Slice(bits, 137, 143))]

-----------------------------------------------------------------------------
(* _decode_position_report_class_b and _decode_extended_position_class_b *)

\* _decode_position_report_class_b(bits): the entries of the record, but for
\* the texts that spell out a flag
decode_position_report_class_b(bits) ==
    LET sog_raw == uint(Slice(bits, 46, 56))
        lon_raw == sint(Slice(bits, 57, 85))
        lat_raw == sint(Slice(bits, 85, 112))
        position == validate_and_convert_coordinates(lon_raw, lat_raw)
        cog_raw == uint(Slice(bits, 112, 124))
        hdg_raw == uint(Slice(bits, 124, 133))
    IN  [sog |-> IF sog_raw = 1023 THEN [None |-> TRUE]
                 ELSE IF sog_raw = 1022 THEN Quotient(1022, 10)
                 ELSE Quotient(sog_raw, 10),
         sog_status |-> IF sog_raw = 1023 THEN "Not available"
                        ELSE IF sog_raw = 1022 THEN "102.2 knots or higher"
                        ELSE "Valid",
         position_accuracy |-> uint(Slice(bits, 56, 57)),
         longitude |-> position.longitude,
         longitude_status |-> position.longitude_status,
         latitude |-> position.latitude,
         latitude_status |-> position.latitude_status,
         cog |-> IF cog_raw = 3600 THEN [None |-> TRUE]
                 ELSE IF 3601 <= cog_raw /\ cog_raw <= 4095
                 THEN [None |-> TRUE]
                 ELSE Quotient(cog_raw, 10),
         cog_status |-> IF cog_raw = 3600 THEN "Not available"
                        ELSE IF 3601 <= cog_raw /\ cog_raw <= 4095
                        THEN "Invalid value"
                        ELSE "Valid",
         true_heading |-> IF hdg_raw = 511 THEN [None |-> TRUE]
                          ELSE IF hdg_raw > 359 THEN [None |-> TRUE]
                          ELSE Quotient(hdg_raw, 1),
         true_heading_status |-> IF hdg_raw = 511 THEN "Not available"
                                 ELSE IF hdg_raw > 359 THEN "Invalid value"
                                 ELSE "Valid",
         timestamp_field |-> uint(Slice(bits, 133, 139)),
         class_b_unit |-> uint(Slice(bits, 141, 142)),
         class_b_display |-> uint(Slice(bits, 142, 143)),
         class_b_dsc |-> uint(Slice(bits, 143, 144)),
         class_b_band |-> uint(Slice(bits, 144, 145)),
         class_b_msg22 |-> uint(Slice(bits, 145, 146)),
         mode_flag |-> uint(Slice(bits, 146, 147)),
         raim_flag |-> uint(Slice(bits, 147, 148)),
         communication_state |-> class_b_communication_state(bits)]

\* the entries _decode_extended_position_class_b adds to those of the
\* class B position report, but for the texts
extended_entries(bits) ==
    LET name == decode_sixbit_ascii(bits, 143, 20)
    IN  Update([vessel_name |-> IF name # <<>> THEN name ELSE [None |-> TRUE],
                ship_type |-> uint(Slice(bits, 263, 271)),
                epfd_type |-> uint(Slice(bits, 301, 305)),
                dte |-> uint(Slice(bits, 306, 307))],
               get_positions_dimensions(bits, 271))

\* _decode_extended_position_class_b(bits)
decode_extended_position_class_b(bits) ==
    Update(decode_position_report_class_b(bits), extended_entries(bits))

-----------------------------------------------------------------------------
(* _decode_binary_message *)

\* the error the length guards of _decode_binary_message return, "" when
\* they pass
BinaryGuard(message_type, n, dest_indicator) ==
    IF message_type = 6 /\ n < 88
        THEN "Message too short for Binary Addressed Message"
    ELSE IF message_type = 8 /\ n < 40
        THEN "Message too short for Binary Broadcast Message"
    ELSE IF message_type = 25 /\ n < 40
        THEN "Message too short for Single Slot Binary Message"
    ELSE IF message_type = 25 /\ dest_indicator = 1 /\ n < 72
        THEN "Message too short for addressed Single Slot Binary Message"
    ELSE IF message_type = 26 /\ n < 40
        THEN "Message too short for Multiple Slot Binary Message"
    ELSE IF message_type = 26 /\ dest_indicator = 1 /\ n < 72
        THEN "Message too short for addressed Multiple Slot Binary Message"
    ELSE ""

\* application_id_start (present or None), binary_data_start and
\* max_binary_length of a message of n bits
BinaryLayout(message_type, n, dest_indicator, binary_flag) ==
    LET addressed == message_type = 6
                     \/ (message_type \in {25, 26} /\ dest_indicator = 1)
        has_id == message_type \in {6, 8} \/ binary_flag = 1
        header == IF addressed THEN 72 ELSE 40
        \* Account for communication state
        comm == IF message_type = 26 THEN 20 ELSE 0
    IN  [has_application_id |-> has_id,
         application_id_start |-> header,
         binary_data_start |-> IF has_id THEN header + 16 ELSE header,
         max_binary_length |-> n - header - comm]

\* the entries read from the head of the message, before the application
\* identifier
binary_head(bits, message_type) ==
    LET destination == [destination_mmsi |-> uint(Slice(bits, 40, 70))]
        indicators ==
            [destination_indicator |-> uint(Slice(bits, 38, 39)),
             binary_data_flag |-> uint(Slice(bits, 39, 40))]
    IN  IF message_type = 6
        THEN [sequence_number |-> uint(Slice(bits, 38, 40)),
              destination_mmsi |-> uint(Slice(bits, 40, 70)),
              retransmit_flag |-> (uint(Slice(bits, 70, 71)) = 1)]
        ELSE IF message_type = 8 THEN <<>>
        ELSE IF uint(Slice(bits, 38, 39)) = 1
        THEN Update(indicators, destination)
        ELSE indicators

\* Communication state for Message 26
binary_communication_state(bits, binary_data_start, max_binary_length) ==
    LET end == binary_data_start + max_binary_length
    IN  IF Len(bits) >= end + 20
        THEN [communication_state |->
                 decode_communication_state(
                     bits, uint(Slice(bits, end, end + 1)), end + 1)]
        ELSE <<>>

\* Text telegram 6-bit ASCII (DAC 1, FI 0)
text_telegram(bits, binary_data_start, max_binary_length) ==
    LET max_text_chars == (max_binary_length - 12) \div 6
        head ==
            [acknowledge_required |->
                 (uint(Slice(bits, binary_data_start,
                             binary_data_start + 1)) = 1),
             text_sequence_number |->
                 uint(Slice(bits, binary_data_start + 1,
                            binary_data_start + 12))]
    IN  IF Len(bits) >= binary_data_start + 11
        THEN IF max_text_chars > 0
             THEN Update(head,
                         [text_message |->
                             decode_sixbit_ascii(bits, binary_data_start + 12,
                                                 max_text_chars)])
             ELSE head
        ELSE <<>>

\* Special handling for international function messages (DAC 1), but for the
\* descriptions
international_entries(bits, fi, binary_data_start, max_binary_length) ==
    LET s == binary_data_start
    IN  IF fi = 0 THEN text_telegram(bits, s, max_binary_length)
        ELSE IF fi = 2 /\ Len(bits) >= s + 16
        THEN [requested_dac |-> uint(Slice(bits, s, s + 10)),
              requested_fi |-> uint(Slice(bits, s + 10, s + 16))]
        ELSE IF fi = 3 /\ Len(bits) >= s + 10
        THEN [requested_dac |-> uint(Slice(bits, s, s + 10))]
        ELSE IF fi = 4 /\ Len(bits) >= s + 138
        THEN [response_dac |-> uint(Slice(bits, s, s + 10)),
              available_function_ids |->
                  {i \in 0..63 : bits[s + 10 + i * 2 + 1] = 1}]
        ELSE IF fi = 5 /\ Len(bits) >= s + 31
        THEN [acknowledged_dac |-> uint(Slice(bits, s, s + 10)),
              acknowledged_fi |-> uint(Slice(bits, s + 10, s + 16)),
              text_sequence_number |-> uint(Slice(bits, s + 16, s + 27)),
              ai_available |-> (uint(Slice(bits, s + 27, s + 28)) = 1),
              ai_response |-> uint(Slice(bits, s + 28, s + 31))]
        ELSE <<>>

\* Extract application identifier if present
application_entries(bits, layout) ==
    LET a == layout.application_id_start
        dac == uint(Slice(bits, a, a + 10))
        fi == uint(Slice(bits, a + 10, a + 16))
    IN  IF layout.has_application_id /\ layout.binary_data_start > a
           /\ Len(bits) >= a + 16
        THEN Update([designated_area_code |-> dac,
                     function_identifier |-> fi],
                    IF dac = 1
                    THEN international_entries(bits, fi,
                                               layout.binary_data_start,
                                               layout.max_binary_length)
                    ELSE <<>>)
        ELSE <<>>

\* Capture the raw binary data
binary_data_entries(bits, layout) ==
    LET data == Slice(bits, layout.binary_data_start,
                      layout.binary_data_start + layout.max_binary_length)
    IN  IF Len(bits) >= layout.binary_data_start
        THEN [binary_data |-> data, binary_data_length_bits |-> Len(data)]
        ELSE <<>>

\* _decode_binary_message(bits, message_type) for message types 6, 8, 25
\* and 26
decode_binary_message(bits, message_type) ==
    LET dest_indicator == uint(Slice(bits, 38, 39))
        binary_flag == uint(Slice(bits, 39, 40))
        error == BinaryGuard(message_type, Len(bits), dest_indicator)
        layout == BinaryLayout(message_type, Len(bits), dest_indicator,
                               binary_flag)
        head == binary_head(bits, message_type)
        comm_state ==
            IF message_type = 26
            THEN binary_communication_state(bits, layout.binary_data_start,
                                            layout.max_binary_length)
            ELSE <<>>
    IN  IF error # "" THEN [error |-> error]
        ELSE Update(Update(Update(head, comm_state),
                           application_entries(bits, layout)),
                    binary_data_entries(bits, layout))

\* the slices the head of _decode_binary_message reads, up to the error of
\* a length guard
binary_head_reads(bits, message_type) ==
    IF message_type = 6
    THEN (IF Len(bits) < 88 THEN {}
          ELSE {<<38, 40>>, <<40, 70>>, <<70, 71>>})
    ELSE IF message_type = 8 \/ Len(bits) < 40 THEN {}
    ELSE {<<38, 39>>, <<39, 40>>}
         \cup (IF uint(Slice(bits, 38, 39)) = 1 /\ Len(bits) >= 72
               THEN {<<40, 70>>} ELSE {})

\* the slices read for the application identifier and the entries of an
\* international function message
application_reads(bits, layout) ==
    LET a == layout.application_id_start
        s == layout.binary_data_start
        dac == uint(Slice(bits, a, a + 10))
        fi == uint(Slice(bits, a + 10, a + 16))
        max_text_chars == (layout.max_binary_length - 12) \div 6
    IN  IF layout.has_application_id /\ s > a /\ Len(bits) >= a + 16
        THEN {<<a, a + 10>>, <<a + 10, a + 16>>}
             \cup (IF dac = 1 /\ fi = 0 /\ Len(bits) >= s + 11
                   THEN {<<s, s + 1>>, <<s + 1, s + 12>>}
                        \cup (IF max_text_chars > 0
                              THEN sixbit_reads(bits, s + 12, max_text_chars)
                              ELSE {})
                   ELSE IF dac = 1 /\ fi = 2 /\ Len(bits) >= s + 16
                   THEN {<<s, s + 10>>, <<s + 10, s + 16>>}
                   ELSE IF dac = 1 /\ fi = 3 /\ Len(bits) >= s + 10
                   THEN {<<s, s + 10>>}
                   ELSE IF dac = 1 /\ fi = 4 /\ Len(bits) >= s + 138
                   THEN {<<s, s + 10>>}
                        \cup {<<s + 10 + i * 2, s + 10 + i * 2 + 1>> :
                                 i \in 0..63}
                   ELSE IF dac = 1 /\ fi = 5 /\ Len(bits) >= s + 31
                   THEN {<<s, s + 10>>, <<s + 10, s + 16>>,
                         <<s + 16, s + 27>>, <<s + 27, s + 28>>,
                         <<s + 28, s + 31>>}
                   ELSE {})
        ELSE {}

\* the slices _decode_binary_message(bits, message_type) reads
binary_message_reads(bits, message_type) ==
    LET dest_indicator == uint(Slice(bits, 38, 39))
        binary_flag == uint(Slice(bits, 39, 40))
        layout == BinaryLayout(message_type, Len(bits), dest_indicator,
                               binary_flag)
        s == layout.binary_data_start
        end == s + layout.max_binary_length
    IN  IF BinaryGuard(message_type, Len(bits), dest_indicator) # ""
        THEN binary_head_reads(bits, message_type)
        ELSE binary_head_reads(bits, message_type)
             \cup (IF message_type = 26 /\ Len(bits) >= end + 20
                   THEN {<<end, end + 1>>}
                        \cup communication_state_reads(
                                 bits, uint(Slice(bits, end, end + 1)),
                                 end + 1)
                   ELSE {})
             \cup application_reads(bits, layout)
             \cup (IF Len(bits) >= s THEN {<<s, end>>} ELSE {})

-----------------------------------------------------------------------------
(* _decode_channel_management *)

\* a | b of two non-negative integers
RECURSIVE BitOr(_, _)
BitOr(a, b) ==
    IF a = 0 THEN b
    ELSE IF b = 0 THEN a
    ELSE (IF a % 2 = 1 \/ b % 2 = 1 THEN 1 ELSE 0)
         + 2 * BitOr(a \div 2, b \div 2)

\* a << k
ShiftLeft(a, k) == a * Pow2(k)

\* (msb << 12) | lsb, where lsb = <17 bits> << 5
destination_mmsi(msb, lsb17) == BitOr(ShiftLeft(msb, 12), ShiftLeft(lsb17, 5))

\* the entries of an addressed message: the area fields contain mmsi numbers
channel_destinations(bits) ==
    [destination_mmsi_1 |->
         destination_mmsi(uint(Slice(bits, 69, 87)),
                          uint(Slice(bits, 87, 104))),
     destination_mmsi_2 |->
         destination_mmsi(uint(Slice(bits, 104, 122)),
                          uint(Slice(bits, 122, 139)))]

\* the entries of a broadcast message: the area fields define an area
channel_area(bits) ==
    validate_and_convert_coordinates_area(
        sint(Slice(bits, 69, 87)), sint(Slice(bits, 87, 104)),
        sint(Slice(bits, 104, 122)), sint(Slice(bits, 122, 139)),
        "tenth_minute")

\* _decode_channel_management(bits), but for the texts
decode_channel_management(bits) ==
    LET addressed == uint(Slice(bits, 139, 140))
    IN  IF Len(bits) < 168
        THEN [error |-> "Message too short for Channel Management"]
        ELSE Update([channel_a |-> uint(Slice(bits, 40, 52)),
                     channel_b |-> uint(Slice(bits, 52, 64)),
                     tx_rx_mode |-> uint(Slice(bits, 64, 68)),
                     power |-> uint(Slice(bits, 68, 69)),
                     addressed_message |-> (addressed = 1),
                     channel_a_bandwidth |-> uint(Slice(bits, 140, 141)),
                     channel_b_bandwidth |-> uint(Slice(bits, 141, 142)),
                     transitional_zone_size |->
                         uint(Slice(bits, 142, 145)) + 1],
                    IF addressed = 1 THEN channel_destinations(bits)
                    ELSE channel_area(bits))

-----------------------------------------------------------------------------
(* decode_payload *)

\* MESSAGE_TYPES with one type too many
MESSAGE_TYPES_To28 == 1..28

MESSAGE_TYPES == 1..27

\* the elif chain of decode_payload: TRUE when a type decoder is called
DecoderCalled(message_type, n) ==
    \/ message_type \in {1, 2, 3} /\ n >= 168
    \/ message_type \in {4, 11} /\ n >= 168
    \/ message_type = 5 /\ n >= 424
    \/ message_type \in {6, 8, 25, 26}
    \/ message_type \in {7, 13}
    \/ message_type = 9 /\ n >= 168
    \/ message_type = 10 /\ n >= 72
    \/ message_type \in {12, 14}
    \/ message_type = 15
    \/ message_type = 16 /\ n >= 96
    \/ message_type = 17
    \/ message_type = 18 /\ n >= 168
    \/ message_type = 19 /\ n >= 312
    \/ message_type = 20
    \/ message_type = 21
    \/ message_type = 22 /\ n >= 168
    \/ message_type = 23 /\ n >= 160
    \/ message_type = 24
    \/ message_type = 27 /\ n >= 96

\* DecoderGuard with the guard of the AtoN report at 168 bits
DecoderGuard_AtoNShort(message_type, n) ==
    IF message_type = 12 /\ n < 72
        THEN "Message too short for Addressed Safety Message"
    ELSE IF message_type = 14 /\ n < 40
        THEN "Message too short for Safety Broadcast Message"
    ELSE IF message_type = 15 /\ n < 88
        THEN "Message too short for Interrogation"
    ELSE IF message_type = 17 /\ n < 80
        THEN "Message too short for DGNSS Broadcast"
    ELSE IF message_type = 21 /\ n < 168
        THEN "Message too short for AtoN Report"
    ELSE ""

\* the length guard at the head of each type decoder but that of the binary
\* messages: the 'error' entry the decoder returns for a buffer of n bits, ""
\* when the guard passes
DecoderGuard(message_type, n) ==
    IF message_type = 12 /\ n < 72
        THEN "Message too short for Addressed Safety Message"
    ELSE IF message_type = 14 /\ n < 40
        THEN "Message too short for Safety Broadcast Message"
    ELSE IF message_type = 15 /\ n < 88
        THEN "Message too short for Interrogation"
    ELSE IF message_type = 17 /\ n < 80
        THEN "Message too short for DGNSS Broadcast"
    ELSE IF message_type = 21 /\ n < 272
        THEN "Message too short for AtoN Report"
    ELSE ""

\* decode_payload(payload), called when the clock reads t.  bits is the bit
\* buffer the type decoders read their fields from.
decode_payload(payload, t) ==
    LET bits == binary_data(payload)
    IN  IF Len(bits) < 6
        THEN [error |-> "Payload too short for valid message"]
        ELSE LET message_type == uint(Slice(bits, 0, 6))
                 called == DecoderCalled(message_type, Len(bits))
             IN  [msg_type |-> message_type,
                  repeat_indicator |->
                      IF Len(bits) >= 8 THEN uint(Slice(bits, 6, 8)) ELSE 0,
                  mmsi |->
                      IF Len(bits) >= 38 THEN uint(Slice(bits, 8, 38)) ELSE 0,
                  timestamp |-> t,
                  known_type |-> message_type \in MESSAGE_TYPES,
                  not_decoded |-> ~called,
                  error |-> IF ~called THEN ""
                            ELSE IF message_type \in {6, 8, 25, 26}
                            THEN BinaryGuard(message_type, Len(bits),
                                             uint(Slice(bits, 38, 39)))
                            ELSE DecoderGuard(message_type, Len(bits)),
                  bits |-> bits]

-----------------------------------------------------------------------------
(* parse_nmea_message *)

\* the return value None
None == [None |-> TRUE]

\* the return value {'partial': True, 'message_id': message_id}
Partial(message_id) == [partial |-> TRUE, message_id |-> message_id]

\* decoded['channel'] = ...; decoded['raw_message'] = ...
WithMetadata(decoded, channel, raw_message) ==
    [k \in DOMAIN decoded \cup {"channel", "raw_message"} |->
        IF k = "channel" THEN channel
        ELSE IF k = "raw_message" THEN raw_message
        ELSE decoded[k]]

\* the single-fragment test off by one
IsSingleFragment_OffByOne(total_fragments) == total_fragments = 0

\* if total_fragments == 1
IsSingleFragment(total_fragments) == total_fragments = 1

\* if total_fragments > 1
IsMultipart(total_fragments) == total_fragments > 1

\* the key taken from the sequential id alone
message_key_IdOnly(message_id, channel) == message_id \o <<"_">>

\* message_key = f"{message_id}_{channel}"
message_key(message_id, channel) == message_id \o <<"_">> \o channel

\* the entry of a key, created when the key is not in the table yet
EntryFor(mm, key, total_fragments, current_time) ==
    IF key \notin DOMAIN mm
    THEN [fragments |-> <<>>, total |-> total_fragments,
          timestamp |-> current_time]
    ELSE mm[key]

\* the table after the fragment is added and the entry's timestamp refreshed
StoreFragment(mm, key, total_fragments, fragment_number, payload, current_time) ==
    LET entry == EntryFor(mm, key, total_fragments, current_time)
        fragments == [i \in DOMAIN entry.fragments \cup {fragment_number} |->
                         IF i = fragment_number THEN payload
                         ELSE entry.fragments[i]]
        stored == [fragments |-> fragments, total |-> entry.total,
                   timestamp |-> current_time]
    IN  [k \in DOMAIN mm \cup {key} |-> IF k = key THEN stored ELSE mm[k]]

\* the completeness test taken as "the last index has arrived"
HaveAllFragments_LastIndex(entry, total_fragments, fragment_number) ==
    fragment_number = total_fragments

\* if len(...['fragments']) == total_fragments
HaveAllFragments(entry, total_fragments, fragment_number) ==
    Cardinality(DOMAIN entry.fragments) = total_fragments

\* the loop for i in range(1, total_fragments + 1), from index i on
RECURSIVE assembled_payload(_, _, _)
assembled_payload(fragments, i, total_fragments) ==
    IF i > total_fragments THEN <<>>
    ELSE fragments[i] \o assembled_payload(fragments, i + 1, total_fragments)

\* del AISDecoder.multipart_messages[message_key]
Delete(mm, key) == [k \in DOMAIN mm \ {key} |-> mm[k]]

\* the branch if total_fragments > 1: the value returned and the table left
Multipart(mm, message_id, channel, total_fragments, fragment_number, payload, current_time) ==
    LET key == message_key(message_id, channel)
        mm1 == StoreFragment(mm, key, total_fragments, fragment_number,
                             payload, current_time)
    IN  IF HaveAllFragments(mm1[key], total_fragments, fragment_number)
        THEN IF \A i \in 1..total_fragments : i \in DOMAIN mm1[key].fragments
             THEN [ret |-> WithMetadata(
                              decode_payload(
                                  assembled_payload(mm1[key].fragments, 1,
                                                    total_fragments),
                                  current_time),
                              channel,
                              <<"MULTIPART", message_id, total_fragments>>),
                   mm |-> Delete(mm1, key)]
             \* KeyError in the loop, caught by except Exception
             ELSE [ret |-> None, mm |-> mm1]
        ELSE [ret |-> Partial(message_id), mm |-> mm1]

\* parse_nmea_message(nmea_message) on table mm when the clock reads
\* current_time: the value returned (ret) and the table left (mm)
parse_nmea_message(line, mm, current_time) ==
    IF ~startswith(line, <<"!", "A", "I", "V", "D", "M">>)
       /\ ~startswith(line, <<"!", "A", "I", "V", "D", "O">>)
    THEN [ret |-> None, mm |-> mm]
    ELSE
    LET parts == split(line, ",")
    IN  IF Len(parts) < 7 THEN [ret |-> None, mm |-> mm]
        ELSE
        LET total_fragments == int(parts[2])
            fragment_number == int(parts[3])
            message_id == IF parts[4] # <<>> THEN parts[4] ELSE <<"0">>
            channel == parts[5]
            payload == parts[6]
            fill_bits == int(split(parts[7], "*")[1])
        IN  \* ValueError from int(), caught by except Exception
            IF ~total_fragments.ok \/ ~fragment_number.ok \/ ~fill_bits.ok
            THEN [ret |-> None, mm |-> mm]
            ELSE IF IsSingleFragment(total_fragments.val)
            THEN [ret |-> WithMetadata(decode_payload(payload, current_time),
                                       channel, line),
                  mm |-> mm]
            ELSE IF IsMultipart(total_fragments.val)
            THEN Multipart(mm, message_id, channel, total_fragments.val,
                           fragment_number.val, payload, current_time)
            ELSE [ret |-> None, mm |-> mm]

-----------------------------------------------------------------------------
(* cleanup_old_multipart *)

timeout == 60

\* the age test with the comparison inverted
Expired_Inverted(message, current_time) ==
    current_time - message.timestamp < timeout

\* the age test with the timeout taken twice
Expired_DoubleTimeout(message, current_time) ==
    current_time - message.timestamp > 2 * timeout

\* if current_time - message['timestamp'] > timeout
Expired(message, current_time) == current_time - message.timestamp > timeout

\* keys_to_remove of cleanup_old_multipart
KeysToRemove(mm, current_time) ==
    {key \in DOMAIN mm : Expired(mm[key], current_time)}

\* the table cleanup_old_multipart leaves
cleanup_old_multipart(mm, current_time) ==
    [key \in DOMAIN mm \ KeysToRemove(mm, current_time) |-> mm[key]]

-----------------------------------------------------------------------------
(* The NMEA checksum of the sentence grammar *)

RECURSIVE BitXor(_, _)
BitXor(a, b) ==
    IF a = 0 /\ b = 0 THEN 0
    ELSE ((a + b) % 2) + 2 * BitXor(a \div 2, b \div 2)

\* XOR of the character codes of s
RECURSIVE XorOf(_)
XorOf(s) ==
    IF Len(s) = 0 THEN 0
    ELSE IF Len(s) = 1 THEN Ord[s[1]]
    ELSE LET h == Len(s) \div 2
             left == XorOf(SubSeq(s, 1, h))
             right == XorOf(SubSeq(s, h + 1, Len(s)))
         IN  BitXor(left, right)

HexDigits == <<"0", "1", "2", "3", "4", "5", "6", "7",
               "8", "9", "A", "B", "C", "D", "E", "F">>

Hex2(n) == <<HexDigits[(n \div 16) + 1], HexDigits[(n % 16) + 1]>>

\* the value of the two hex digits h, -1 when they are not hex digits
HexValue(h) ==
    IF Len(h) = 2 /\ \A i \in 1..2 : \E d \in 1..16 : HexDigits[d] = h[i]
    THEN 16 * ((CHOOSE d \in 1..16 : HexDigits[d] = h[1]) - 1)
         + ((CHOOSE d \in 1..16 : HexDigits[d] = h[2]) - 1)
    ELSE 0 - 1

\* the sentence has a '*' and the two hex digits after it are the XOR of all
\* characters between the leading character (exclusive) and '*' (exclusive)
ChecksumValid(line) ==
    LET star == find(line, "*")
    IN  /\ star > 1
        /\ HexValue(SubSeq(line, star + 1, Len(line)))
             = XorOf(SubSeq(line, 2, star - 1))

-----------------------------------------------------------------------------
(* Input sentences *)

AIVDM == <<"A", "I", "V", "D", "M">>
AIVDO == <<"A", "I", "V", "D", "O">>

\* "!<talker>,<total>,<index>,<seq>,<channel>,<payload>,<fill>*hh" where hh
\* is the checksum with the bits of flip inverted
Sentence(talker, total, index, seq, channel, payload, fill, flip) ==
    LET body == talker \o <<",">> \o total \o <<",">> \o index \o <<",">>
                \o seq \o <<",">> \o channel \o <<",">> \o payload
                \o <<",">> \o fill
    IN  <<"!">> \o body \o <<"*">> \o Hex2(BitXor(XorOf(body), flip))

\* the payload of scenario E1 (a type 1 position report of 168 bits)
PayloadE1 ==
    <<"1","3","H","O","I",":","0","P","0","0","0","0","V","O",
      "H","L","C","n","H","Q","K","w","v","L","0","5","I","p">>

\* a fragment of a multi-sentence message on channel A; the payload "5"
\* is sent with two fill bits, the payload "1" with none
Fragment(total, index, seq, payload, flip) ==
    Sentence(AIVDM, total, index, seq, <<"A">>, payload,
             IF payload = <<"5">> THEN <<"2">> ELSE <<"0">>, flip)

\* fragments of multi-sentence messages: groups of two and of three under
\* sequential id 3 (with an index beyond the total and a wrong checksum),
\* and the first fragment of a group without a sequential id
FragmentLines ==
    { Fragment(<<"2">>, <<"1">>, <<"3">>, <<"1">>, 0),
      Fragment(<<"2">>, <<"2">>, <<"3">>, <<"1">>, 0),
      Fragment(<<"2">>, <<"2">>, <<"3">>, <<"5">>, 0),
      Fragment(<<"2">>, <<"2">>, <<"3">>, <<"5">>, 1),
      Fragment(<<"2">>, <<"3">>, <<"3">>, <<"1">>, 0),
      Fragment(<<"3">>, <<"1">>, <<"3">>, <<"1">>, 0),
      Fragment(<<"3">>, <<"2">>, <<"3">>, <<"5">>, 0),
      Fragment(<<"3">>, <<"3">>, <<"3">>, <<"1">>, 0),
      Fragment(<<"2">>, <<"1">>, <<>>, <<"1">>, 0) }

\* a single-sentence message
Single(index, payload, fill, flip) ==
    Sentence(AIVDM, <<"1">>, index, <<>>, <<"A">>, payload, fill, flip)

\* single-sentence messages: an empty payload, a type 1 header alone, type
\* 63, type 14 too short for its decoder, characters outside 48..119, the
\* full position report, fill bits, an index beyond the total, a wrong
\* checksum
SingleLines ==
    { Single(<<"1">>, <<>>, <<"0">>, 0),
      Single(<<"1">>, <<"1">>, <<"0">>, 0),
      Single(<<"1">>, <<"o">>, <<"0">>, 0),
      Single(<<"1">>, <<">">>, <<"0">>, 0),
      Single(<<"1">>, <<"1", " ">>, <<"0">>, 0),
      Single(<<"1">>, PayloadE1, <<"0">>, 0),
      Single(<<"1">>, PayloadE1, <<"2">>, 0),
      Single(<<"2">>, PayloadE1, <<"0">>, 0),
      Single(<<"1">>, PayloadE1, <<"0">>, 1) }

\* other lines: not an AIS sentence, fewer than seven fields, the AIVDO
\* talker, a total of 0, fields that are not numbers
OtherLines ==
    { <<"$", "G", "P", "G", "G", "A", ",", "1">>,
      <<"!", "A", "I", "V", "D", "M", ",", "1", ",", "1", ",", ",", "A", ",",
        "1">>,
      Sentence(AIVDO, <<"1">>, <<"1">>, <<>>, <<"B">>, PayloadE1, <<"0">>, 0),
      Sentence(AIVDM, <<"0">>, <<"1">>, <<>>, <<"A">>, <<"1">>, <<"0">>, 0),
      Sentence(AIVDM, <<"x">>, <<"1">>, <<>>, <<"A">>, <<"1">>, <<"0">>, 0),
      Sentence(AIVDM, <<"1">>, <<"x">>, <<>>, <<"A">>, <<"1">>, <<"0">>, 0),
      Sentence(AIVDM, <<"1">>, <<"1">>, <<>>, <<"A">>, <<"1">>, <<"x">>, 0) }

Lines == FragmentLines \cup SingleLines \cup OtherLines

-----------------------------------------------------------------------------
(* The decoder as a state machine *)

\* the clock advances by a step of TickSteps up to MaxTime
MaxTime == 120
TickSteps == {60}

\* no group is followed
NoGroup == [total |-> 0, payloads |-> <<>>]

\* no call of a table-free function has been made
NoCall == [fn |-> "none"]

\* the decoder instances a program may create: AISDecoder() twice
Decoders == {"decoder_1", "decoder_2"}
NoDecoder == "none"

\* the threads of app.py that call the decoder: UDPListener.run and
\* periodic_cleanup
Threads == {"listener", "cleaner"}

\* the local variables of a thread before its first call
NoFrame ==
    [message |-> <<>>, received |-> 0, has_last_cleanup |-> FALSE,
     last_cleanup |-> 0, wake |-> 0,
     current_time |-> 0, key |-> <<>>, message_id |-> <<>>, channel |-> <<>>,
     total_fragments |-> 0, fragment_number |-> 0, payload |-> <<>>,
     decoded |-> None, size |-> 0, todo |-> {}, remove |-> {}]

Init ==
    /\ multipart_messages = <<>>
    /\ now = 0
    /\ op = "init"
    /\ nmea_message = <<>>
    /\ result = None
    /\ keys_to_remove = {}
    /\ group = NoGroup
    /\ order = <<>>
    /\ outcomes = <<>>
    /\ call = NoCall
    /\ decoder = NoDecoder
    /\ owned = [d \in Decoders |-> <<>>]
    /\ pc = [t \in Threads |-> "idle"]
    /\ frame = [t \in Threads |-> NoFrame]

\* a call of parse_nmea_message(line)
ParseCall(line) ==
    LET r == parse_nmea_message(line, multipart_messages, now)
    IN  /\ multipart_messages' = r.mm
        /\ result' = r.ret
        /\ nmea_message' = line
        /\ op' = "parse"
        /\ keys_to_remove' = {}
        /\ UNCHANGED <<now, call, threads>>

Parse(line) == ParseCall(line) /\ UNCHANGED <<delivery, instances>>

\* a call of cleanup_old_multipart()
CleanupCall ==
    /\ keys_to_remove' = KeysToRemove(multipart_messages, now)
    /\ multipart_messages' = cleanup_old_multipart(multipart_messages, now)
    /\ op' = "cleanup"
    /\ nmea_message' = <<>>
    /\ result' = None
    /\ UNCHANGED <<now, delivery, call, threads>>

Cleanup == CleanupCall /\ UNCHANGED instances

\* time passes between two calls: d seconds, the clock staying below limit
Advance(d, limit) ==
    /\ now + d <= limit
    /\ now' = now + d
    /\ op' = "tick"
    /\ nmea_message' = <<>>
    /\ result' = None
    /\ keys_to_remove' = {}
    /\ UNCHANGED <<multipart_messages, delivery, call, instances, threads>>

Tick == \E d \in TickSteps : Advance(d, MaxTime)

ParseAny == \E line \in Lines : Parse(line)

Next == ParseAny \/ Cleanup \/ Tick

Spec == Init /\ [][Next]_vars

-----------------------------------------------------------------------------
(* Delivery of the fragments of one group in any order *)

\* the largest number of fragments of a group
MaxFragments == 3

\* the two halves of the payload of scenario E1
PayloadE1a == SubSeq(PayloadE1, 1, 14)
PayloadE1b == SubSeq(PayloadE1, 15, 28)

GroupPayloads == {PayloadE1a, PayloadE1b}

\* the groups: a total and one payload for each index 1..total
Groups ==
    UNION {{[total |-> n, payloads |-> p] : p \in [1..n -> GroupPayloads]} :
               n \in 2..MaxFragments}

\* the decimal digit n as a string
Digit(n) == <<HexDigits[n + 1]>>

\* the sentence of fragment i of group g, sent under sequential id 3
GroupLine(g, i) ==
    Sentence(AIVDM, Digit(g.total), Digit(i), <<"3">>, <<"A">>, g.payloads[i],
             <<"0">>, 0)

\* a fragment of another message, sent without a sequential id
OtherKeyLine == Fragment(<<"2">>, <<"1">>, <<>>, <<"1">>, 0)

InitPerm ==
    /\ multipart_messages = <<>>
    /\ now = 0
    /\ op = "init"
    /\ nmea_message = <<>>
    /\ result = None
    /\ keys_to_remove = {}
    /\ group \in Groups
    /\ order = <<>>
    /\ outcomes = <<>>
    /\ call = NoCall
    /\ decoder = NoDecoder
    /\ owned = [d \in Decoders |-> <<>>]
    /\ pc = [t \in Threads |-> "idle"]
    /\ frame = [t \in Threads |-> NoFrame]

\* fragment i of the group, not delivered yet, is parsed
Deliver(i) ==
    /\ \A j \in 1..Len(order) : order[j] # i
    /\ ParseCall(GroupLine(group, i))
    /\ order' = Append(order, i)
    /\ outcomes' = Append(outcomes, result')
    /\ UNCHANGED <<group, instances>>

DeliverAny == \E i \in 1..group.total : Deliver(i)

\* a fragment of another message arrives in between
ParseOther == Parse(OtherKeyLine)

\* time passes, less than the timeout in all
TickWithinTimeout == Advance(30, timeout)

NextPerm == DeliverAny \/ ParseOther \/ TickWithinTimeout \/ Cleanup

SpecPerm == InitPerm /\ [][NextPerm]_vars

\* the value returned for the last fragment when the fragments i..total of
\* group g are parsed in ascending order, starting on table mm at time t
RECURSIVE AscendingResult(_, _, _, _)
AscendingResult(g, i, mm, t) ==
    LET r == parse_nmea_message(GroupLine(g, i), mm, t)
    IN  IF i = g.total THEN r.ret ELSE AscendingResult(g, i + 1, r.mm, t)

\* the decoded fields of a record: all but the wall-clock time of decoding
DecodedFields(r) == [k \in DOMAIN r \ {"timestamp"} |-> r[k]]


-----------------------------------------------------------------------------
(* decode_payload called on its own *)

\* the longest payload, in characters (71 characters carry 426 bits)
MaxPayloadChars == 71

\* the characters decode_payload takes for armor, codes 48 to 119
ArmorChars == {Printable[i] : i \in 17..88}

\* the payloads: any armor character first, then zeros
Payloads ==
    {<<c>> \o [i \in 1..(n - 1) |-> "0"] :
         c \in ArmorChars, n \in 1..MaxPayloadChars}

\* the state before a call of a table-free function: its arguments are
\* chosen, the decoder is as constructed
Chosen(inputs) ==
    /\ multipart_messages = <<>>
    /\ now = 0
    /\ op = "init"
    /\ nmea_message = <<>>
    /\ result = None
    /\ keys_to_remove = {}
    /\ group = NoGroup
    /\ order = <<>>
    /\ outcomes = <<>>
    /\ call \in inputs
    /\ decoder = NoDecoder
    /\ owned = [d \in Decoders |-> <<>>]
    /\ pc = [t \in Threads |-> "idle"]
    /\ frame = [t \in Threads |-> NoFrame]

\* the call returns: nothing but the record of the call changes
Returns(c) ==
    /\ call' = c
    /\ UNCHANGED <<multipart_messages, now, op, nmea_message, result,
                   keys_to_remove, delivery, instances, threads>>

InitDecode == Chosen({[fn |-> "chosen", payload |-> p] : p \in Payloads})

\* the call of decode_payload(payload) on the chosen payload
DecodePayload ==
    /\ call.fn = "chosen"
    /\ Returns([fn |-> "decode_payload", payload |-> call.payload,
                ret |-> decode_payload(call.payload, now)])

NextDecode == DecodePayload

SpecDecode == InitDecode /\ [][NextDecode]_vars

\* the message type in the first six bits of a payload
RawType(payload) == uint(Slice(binary_data(payload), 0, 6))

-----------------------------------------------------------------------------
(* decode_sixbit_ascii called on its own *)

\* the longest text, in characters
MaxTextLen == 3

\* the codes of the longer texts: '@', 'A' and the space
TextCodes == {0, 1, 32}

\* the texts as sequences of six-bit codes: every text of one or two
\* characters, and longer ones over TextCodes
Texts ==
    UNION {[1..n -> 0..63] : n \in 1..2}
    \cup UNION {[1..n -> TextCodes] : n \in 3..MaxTextLen}

\* the bits of a sequence of six-bit codes
RECURSIVE CodeBits(_)
CodeBits(codes) ==
    IF Len(codes) = 0 THEN <<>>
    ELSE format06b(Head(codes)) \o CodeBits(Tail(codes))

\* the text lies at bit 0 or at bit 2 of the buffer and the call asks for
\* its length or for one character more than the buffer holds
InitText ==
    Chosen({[fn |-> "chosen", codes |-> t, start_pos |-> p,
             length |-> Len(t) + e] :
                t \in Texts, p \in {0, 2}, e \in {0, 1}})

\* the call of decode_sixbit_ascii on the chosen text
DecodeText ==
    /\ call.fn = "chosen"
    /\ LET bits == [i \in 1..call.start_pos |-> 1] \o CodeBits(call.codes)
       IN  Returns([fn |-> "decode_sixbit_ascii", codes |-> call.codes,
                    start_pos |-> call.start_pos, length |-> call.length,
                    untrimmed |-> sixbit_result(bits, call.start_pos,
                                                call.length),
                    ret |-> decode_sixbit_ascii(bits, call.start_pos,
                                                call.length)])

NextText == DecodeText

SpecText == InitText /\ [][NextText]_vars

-----------------------------------------------------------------------------
(* The coordinate functions called on their own *)

\* raw longitudes and latitudes in 1/10000 minute: zero, the ends of the
\* range and the values next to them, 181 and 91 degrees, the ends of the
\* 28-bit and 27-bit fields
StandardLons ==
    {0, 1, 108000000, 108000001, -108000000, -108000001, 108600000,
     134217727, -134217728}
StandardLats ==
    {0, 1, 54000000, 54000001, -54000000, -54000001, 54600000, 67108863,
     -67108864}

\* raw longitudes and latitudes in 1/10 minute: zero, the ends of the range
\* and the values next to them, 181 and 91 degrees, the values 18100 and
\* 9100, 1810 and 910, the ends of the 18-bit and 17-bit fields
TenthLons ==
    {0, 108000, 108001, -108000, -108001, 108600, 18100, 1810, 131071,
     -131072}
TenthLats ==
    {0, 54000, 54001, -54000, -54001, 54600, 9100, 910, 65535, -65536}

\* the south-west corners of the areas
Corners == {<<0, 0>>, <<1810, 910>>, <<108001, 54001>>}

InitCoordinates ==
    Chosen({[fn |-> "chosen", variant |-> "standard", lon_raw |-> x,
             lat_raw |-> y, sw |-> <<0, 0>>] :
                x \in StandardLons, y \in StandardLats}
           \cup {[fn |-> "chosen", variant |-> v, lon_raw |-> x,
                  lat_raw |-> y, sw |-> <<0, 0>>] :
                v \in {"long_range", "dgnss"},
                x \in TenthLons, y \in TenthLats}
           \cup {[fn |-> "chosen", variant |-> "area", lon_raw |-> x,
                  lat_raw |-> y, sw |-> c] :
                x \in TenthLons, y \in TenthLats, c \in Corners})

\* the coordinates a call has decoded: the raw value, the value and the
\* status of each
Decoded(lon_raw, lat_raw, r) ==
    {[axis |-> "longitude", raw |-> lon_raw, value |-> r.longitude,
      status |-> r.longitude_status],
     [axis |-> "latitude", raw |-> lat_raw, value |-> r.latitude,
      status |-> r.latitude_status]}

DecodedArea(ne_lon, ne_lat, sw_lon, sw_lat, r) ==
    {[axis |-> "longitude", raw |-> ne_lon, value |-> r.ne_longitude,
      status |-> r.ne_longitude_status],
     [axis |-> "latitude", raw |-> ne_lat, value |-> r.ne_latitude,
      status |-> r.ne_latitude_status],
     [axis |-> "longitude", raw |-> sw_lon, value |-> r.sw_longitude,
      status |-> r.sw_longitude_status],
     [axis |-> "latitude", raw |-> sw_lat, value |-> r.sw_latitude,
      status |-> r.sw_latitude_status]}

\* the call of the coordinate function of the chosen variant
ConvertCoordinates ==
    /\ call.fn = "chosen"
    /\ LET x == call.lon_raw
           y == call.lat_raw
           r == IF call.variant = "standard"
                THEN validate_and_convert_coordinates(x, y)
                ELSE IF call.variant = "long_range"
                THEN validate_and_convert_coordinates_long_range(x, y)
                ELSE IF call.variant = "dgnss"
                THEN validate_and_convert_coordinates_dgnss(x, y)
                ELSE validate_and_convert_coordinates_area(
                         x, y, call.sw[1], call.sw[2], "tenth_minute")
       IN  Returns([fn |-> "validate_and_convert_coordinates",
                    variant |-> call.variant, ret |-> r,
                    coordinates |->
                        IF call.variant = "area"
                        THEN DecodedArea(x, y, call.sw[1], call.sw[2], r)
                        ELSE Decoded(x, y, r)])

NextCoordinates == ConvertCoordinates

SpecCoordinates == InitCoordinates /\ [][NextCoordinates]_vars

-----------------------------------------------------------------------------
(* _decode_position_report_class_a called on its own *)

\* the w bits of v, two's complement when v is negative
Bits(v, w) == [i \in 1..w |-> (((v + Pow2(w)) % Pow2(w)) \div Pow2(w - i)) % 2]

\* a position report of 168 bits with the given raw longitude, latitude,
\* course and heading, its other fields zero
ReportBits(lon_raw, lat_raw, cog_raw, hdg_raw) ==
    Bits(1, 6) \o Bits(0, 2) \o Bits(0, 30) \o Bits(0, 4) \o Bits(0, 8)
    \o Bits(0, 10) \o Bits(0, 1) \o Bits(lon_raw, 28) \o Bits(lat_raw, 27)
    \o Bits(cog_raw, 12) \o Bits(hdg_raw, 9) \o Bits(0, 6) \o Bits(0, 25)

\* raw values of the four fields: within range, not available, out of range
ReportLons == {0, 108000000, 108000001, -108000001, 108600000, 134217727}
ReportLats == {0, 54000000, 54000001, -54000001, 54600000, 67108863}
ReportCogs == {0, 3599, 3600, 3601, 4095}
ReportHdgs == {0, 359, 360, 510, 511}

InitReport ==
    Chosen({[fn |-> "chosen", lon_raw |-> x, lat_raw |-> y, cog_raw |-> c,
             hdg_raw |-> h] :
                x \in ReportLons, y \in ReportLats, c \in ReportCogs,
                h \in ReportHdgs})

\* the call of _decode_position_report_class_a on the chosen report
DecodeReport ==
    /\ call.fn = "chosen"
    /\ Returns([fn |-> "decode_position_report_class_a",
                lon_raw |-> call.lon_raw, lat_raw |-> call.lat_raw,
                cog_raw |-> call.cog_raw, hdg_raw |-> call.hdg_raw,
                ret |-> decode_position_report_class_a(
                            ReportBits(call.lon_raw, call.lat_raw,
                                       call.cog_raw, call.hdg_raw))])

NextReport == DecodeReport

SpecReport == InitReport /\ [][NextReport]_vars

-----------------------------------------------------------------------------
(* The communication state of the message types that carry one *)

\* the message types with a communication state at bits 149 to 167
CommStateTypes == {1, 2, 3, 4, 9, 11, 18}

\* the 19 bits of the communication state: every slot time-out with the low
\* bits clear and with the low bits 1011 (five slots and the keep flag, read
\* as ITDMA)
CommStates == {t * 16384 + k : t \in 0..7, k \in {0, 11}}

\* a message of 168 bits of the given type with the given bit 148 and
\* communication state, its other fields zero
CommStateBits(message_type, bit148, state) ==
    Bits(message_type, 6) \o Bits(0, 30) \o Bits(0, 30) \o Bits(0, 30)
    \o Bits(0, 30) \o Bits(0, 22) \o Bits(bit148, 1) \o Bits(state, 19)

\* the elif chain of decode_payload for the types of CommStateTypes: the
\* communication_state entry of the decoder called
dispatched_communication_state(message_type, bits) ==
    IF message_type \in {1, 2, 3} THEN class_a_communication_state(bits)
    ELSE IF message_type \in {4, 11} THEN base_station_communication_state(bits)
    ELSE IF message_type = 9 THEN sar_communication_state(bits)
    ELSE class_b_communication_state(bits)

InitCommState ==
    Chosen({[fn |-> "chosen", msg_type |-> m, bit148 |-> b, state |-> s] :
                m \in CommStateTypes, b \in {0, 1}, s \in CommStates})

\* the call of decode_payload on the chosen message, as far as its
\* communication state goes
DecodeCommState ==
    /\ call.fn = "chosen"
    /\ LET bits == CommStateBits(call.msg_type, call.bit148, call.state)
       IN  Returns([fn |-> "communication_state",
                    msg_type |-> uint(Slice(bits, 0, 6)),
                    bit148 |-> call.bit148, state |-> call.state,
                    ret |-> dispatched_communication_state(
                                uint(Slice(bits, 0, 6)), bits)])

NextCommState == DecodeCommState

SpecCommState == InitCommState /\ [][NextCommState]_vars

-----------------------------------------------------------------------------
(* get_positions_dimensions called on its own *)

\* the distances to bow and stern (9 bits) and to port and starboard (6
\* bits): zero, one and the largest value of the field
DimLengths == {0, 1, 511}
DimWidths == {0, 1, 63}

\* the dimensions field lies at bit 0 or at bit 2 of the buffer
InitDimensions ==
    Chosen({[fn |-> "chosen", dim_a |-> a, dim_b |-> b, dim_c |-> c,
             dim_d |-> d, start_bit |-> p] :
                a \in DimLengths, b \in DimLengths, c \in DimWidths,
                d \in DimWidths, p \in {0, 2}})

\* the call of get_positions_dimensions on the chosen field
GetDimensions ==
    /\ call.fn = "chosen"
    /\ LET bits == [i \in 1..call.start_bit |-> 1] \o Bits(call.dim_a, 9)
                   \o Bits(call.dim_b, 9) \o Bits(call.dim_c, 6)
                   \o Bits(call.dim_d, 6)
       IN  Returns([fn |-> "get_positions_dimensions",
                    dim_a |-> call.dim_a, dim_b |-> call.dim_b,
                    dim_c |-> call.dim_c, dim_d |-> call.dim_d,
                    ret |-> get_positions_dimensions(bits, call.start_bit)])

NextDimensions == GetDimensions

SpecDimensions == InitDimensions /\ [][NextDimensions]_vars

-----------------------------------------------------------------------------
(* _decode_extended_position_class_b called on its own *)

\* an extended class B report (type 19) of 312 bits: the vessel name is the
\* character of the six-bit code first followed by 19 '@', then the RAIM
\* flag at bit 305, DTE at bit 306 and the assigned-mode flag at bit 307;
\* its other fields are zero
ExtendedBits(first, raim, dte, assigned) ==
    Bits(19, 6) \o Bits(0, 30) \o Bits(0, 30) \o Bits(0, 30) \o Bits(0, 30)
    \o Bits(0, 17) \o Bits(first, 6) \o Bits(0, 30) \o Bits(0, 30)
    \o Bits(0, 30) \o Bits(0, 24) \o Bits(0, 8) \o Bits(0, 30) \o Bits(0, 4)
    \o Bits(raim, 1) \o Bits(dte, 1) \o Bits(assigned, 1) \o Bits(0, 4)

InitExtended ==
    Chosen({[fn |-> "chosen", first |-> c, raim |-> r, dte |-> d,
             assigned |-> a] :
                c \in 0..63, r \in {0, 1}, d \in {0, 1}, a \in {0, 1}})

\* the call of _decode_extended_position_class_b on the chosen report
DecodeExtended ==
    /\ call.fn = "chosen"
    /\ Returns([fn |-> "decode_extended_position_class_b",
                first |-> call.first, raim |-> call.raim, dte |-> call.dte,
                assigned |-> call.assigned,
                ret |-> decode_extended_position_class_b(
                            ExtendedBits(call.first, call.raim, call.dte,
                                         call.assigned))])

NextExtended == DecodeExtended

SpecExtended == InitExtended /\ [][NextExtended]_vars

-----------------------------------------------------------------------------
(* _decode_binary_message called on multiple slot binary messages (type 26) *)

\* binary_data_start of a type 26 message: after the 40 bits of the head,
\* the 32 bits of the destination when addressed and the 16 bits of the
\* application identifier when present
DataStart26(dest_indicator, binary_flag) ==
    40 + (IF dest_indicator = 1 THEN 32 ELSE 0)
       + (IF binary_flag = 1 THEN 16 ELSE 0)

\* the numbers of bits of binary data
DataLengths26 == {0, 1, 8, 30}

\* the final 20 bits: the selector and these 19 bits of state
States26 == {0, 11, 5 * 16384 + 3}

\* a type 26 message: the head, len_data + (32) + (16) bits set to 1 for
\* the destination, the application identifier and the binary data, then
\* the selector and the 19 bits of communication state
Bits26(dest_indicator, binary_flag, len_data, selector, state) ==
    Bits(26, 6) \o Bits(0, 2) \o Bits(0, 30) \o Bits(dest_indicator, 1)
    \o Bits(binary_flag, 1)
    \o [i \in 1..(DataStart26(dest_indicator, binary_flag) - 40 + len_data)
           |-> 1]
    \o Bits(selector, 1) \o Bits(state, 19)

InitBinary26 ==
    Chosen({[fn |-> "chosen", dest_indicator |-> d, binary_flag |-> f,
             len_data |-> n, selector |-> s, state |-> c] :
                d \in {0, 1}, f \in {0, 1}, n \in DataLengths26,
                s \in {0, 1}, c \in States26})

\* the call of _decode_binary_message(bits, 26) on the chosen message
DecodeBinary26 ==
    /\ call.fn = "chosen"
    /\ LET bits == Bits26(call.dest_indicator, call.binary_flag,
                          call.len_data, call.selector, call.state)
       IN  Returns([fn |-> "decode_binary_message", bits |-> bits,
                    dest_indicator |-> call.dest_indicator,
                    binary_flag |-> call.binary_flag,
                    selector |-> call.selector, state |-> call.state,
                    ret |-> decode_binary_message(bits, 26)])

NextBinary26 == DecodeBinary26

SpecBinary26 == InitBinary26 /\ [][NextBinary26]_vars

-----------------------------------------------------------------------------
(* _decode_channel_management called on its own *)

\* values of the 18-bit and of the 17-bit half of a destination
Msbs == {0, 1, 2, 262143}
Lsbs == {0, 1, 128, 131071}

\* a channel management message (type 22) of 168 bits with the given
\* addressed flag (bit 139) and the four area fields, its other fields zero
Bits22(addressed, msb_1, lsb_1, msb_2, lsb_2) ==
    Bits(22, 6) \o Bits(0, 2) \o Bits(0, 30) \o Bits(0, 2) \o Bits(0, 29)
    \o Bits(msb_1, 18) \o Bits(lsb_1, 17) \o Bits(msb_2, 18)
    \o Bits(lsb_2, 17) \o Bits(addressed, 1) \o Bits(0, 28)

InitChannel ==
    Chosen({[fn |-> "chosen", addressed |-> a, msb_1 |-> m1, lsb_1 |-> l1,
             msb_2 |-> m2, lsb_2 |-> l2] :
                a \in {0, 1}, m1 \in Msbs, l1 \in Lsbs, m2 \in {0, 262143},
                l2 \in {0, 131071}})

\* the call of _decode_channel_management on the chosen message
DecodeChannel ==
    /\ call.fn = "chosen"
    /\ Returns([fn |-> "decode_channel_management",
                addressed |-> call.addressed,
                msb_1 |-> call.msb_1, lsb_1 |-> call.lsb_1,
                msb_2 |-> call.msb_2, lsb_2 |-> call.lsb_2,
                ret |-> decode_channel_management(
                            Bits22(call.addressed, call.msb_1, call.lsb_1,
                                   call.msb_2, call.lsb_2))])

NextChannel == DecodeChannel

SpecChannel == InitChannel /\ [][NextChannel]_vars

-----------------------------------------------------------------------------
(* Two groups with different keys, their fragments interleaved *)

\* the payload of scenario E1 with another character in its MMSI
PayloadE1x == [PayloadE1 EXCEPT ![5] = "J"]

\* the sequential ids and channels of the two groups: the same id on two
\* channels, or two ids on one channel
GroupKeys ==
    {[seq |-> <<"3">>, channel |-> <<"A">>],
     [seq |-> <<"3">>, channel |-> <<"B">>],
     [seq |-> <<"4">>, channel |-> <<"A">>]}

\* a pair of groups of two fragments each, the first carrying the two
\* halves of PayloadE1 and the second those of PayloadE1x, under two
\* different keys
GroupPairs ==
    {<<[total |-> 2, payloads |-> <<PayloadE1a, PayloadE1b>>,
        seq |-> k[1].seq, channel |-> k[1].channel],
       [total |-> 2,
        payloads |-> <<SubSeq(PayloadE1x, 1, 14), SubSeq(PayloadE1x, 15, 28)>>,
        seq |-> k[2].seq, channel |-> k[2].channel]>> :
        k \in {p \in GroupKeys \X GroupKeys : p[1] # p[2]}}

\* the sentence of fragment i of group g
KeyedLine(g, i) ==
    Sentence(AIVDM, Digit(g.total), Digit(i), g.seq, g.channel, g.payloads[i],
             <<"0">>, 0)

InitKeys ==
    /\ multipart_messages = <<>>
    /\ now = 0
    /\ op = "init"
    /\ nmea_message = <<>>
    /\ result = None
    /\ keys_to_remove = {}
    /\ group \in GroupPairs
    /\ order = <<>>
    /\ outcomes = <<>>
    /\ call = NoCall
    /\ decoder = NoDecoder
    /\ owned = [d \in Decoders |-> <<>>]
    /\ pc = [t \in Threads |-> "idle"]
    /\ frame = [t \in Threads |-> NoFrame]

\* fragment i of group k of the pair, not delivered yet, is parsed
DeliverKeyed(k, i) ==
    /\ \A j \in 1..Len(order) : order[j] # <<k, i>>
    /\ ParseCall(KeyedLine(group[k], i))
    /\ order' = Append(order, <<k, i>>)
    /\ outcomes' = Append(outcomes, result')
    /\ UNCHANGED <<group, instances>>

DeliverKeyedAny == \E k \in 1..2, i \in 1..2 : DeliverKeyed(k, i)

NextKeys == DeliverKeyedAny \/ TickWithinTimeout \/ Cleanup

SpecKeys == InitKeys /\ [][NextKeys]_vars

\* the values returned when the fragments of group g alone are parsed in
\* the order indices, starting on table mm
RECURSIVE AloneOutcomes(_, _, _)
AloneOutcomes(g, indices, mm) ==
    IF indices = <<>> THEN <<>>
    ELSE LET r == parse_nmea_message(KeyedLine(g, Head(indices)), mm, 0)
         IN  <<r.ret>> \o AloneOutcomes(g, Tail(indices), r.mm)

\* the positions of order at which a fragment of group k was delivered
PositionsOf(k) == {j \in 1..Len(order) : order[j][1] = k}

\* the j-th smallest element of a set of numbers
Nth(S, j) == CHOOSE x \in S : Cardinality({y \in S : y < x}) = j - 1

\* the fragment indices of group k in their order of delivery
IndicesOf(k) ==
    [j \in 1..Cardinality(PositionsOf(k)) |-> order[Nth(PositionsOf(k), j)][2]]

-----------------------------------------------------------------------------
(* _decode_binary_message called on its own *)

BinaryTypes == {6, 8, 25, 26}

\* designated area codes: international and regional
Dacs == {1, 2}

\* function identifiers: text telegram, interrogation, capability
\* interrogation and response, application acknowledgement
Fis == {0, 2, 3, 4, 5}

\* the numbers of bits that follow the application identifier (or the head,
\* without one): around the lengths the function messages are tested for
TailLengths == {0, 10, 11, 12, 18, 31, 138}

\* a binary message: the head with bits 38 and 39 as given, the destination
\* when the message is addressed, the application identifier when there is
\* one, then tail bits set to 1
BinaryBits(message_type, bit38, bit39, dac, fi, tail) ==
    Bits(message_type, 6) \o Bits(0, 2) \o Bits(0, 30) \o Bits(bit38, 1)
    \o Bits(bit39, 1)
    \o (IF message_type = 6 \/ (message_type \in {25, 26} /\ bit38 = 1)
        THEN Bits(0, 30) \o Bits(0, 2) ELSE <<>>)
    \o (IF message_type \in {6, 8} \/ bit39 = 1
        THEN Bits(dac, 10) \o Bits(fi, 6) ELSE <<>>)
    \o [i \in 1..tail |-> 1]

InitBinary ==
    Chosen({[fn |-> "chosen", msg_type |-> m, bit38 |-> d, bit39 |-> f,
             dac |-> a, fi |-> i, tail |-> n] :
                m \in BinaryTypes, d \in {0, 1}, f \in {0, 1}, a \in Dacs,
                i \in Fis, n \in TailLengths})

\* the call of _decode_binary_message on the chosen message
DecodeBinary ==
    /\ call.fn = "chosen"
    /\ LET bits == BinaryBits(call.msg_type, call.bit38, call.bit39,
                              call.dac, call.fi, call.tail)
       IN  Returns([fn |-> "binary_message", msg_type |-> call.msg_type,
                    dac |-> call.dac, fi |-> call.fi, tail |-> call.tail,
                    length |-> Len(bits),
                    ret |-> decode_binary_message(bits, call.msg_type),
                    reads |-> binary_message_reads(bits, call.msg_type)])

NextBinary == DecodeBinary

SpecBinary == InitBinary /\ [][NextBinary]_vars

-----------------------------------------------------------------------------
(* The sentence grammar and the result kinds of the specification *)

\* the comma-separated fields of a line with at least seven of them
HasFields(line) == Len(split(line, ",")) >= 7
FieldTotal(line) == split(line, ",")[2]
FieldIndex(line) == split(line, ",")[3]
FieldSeq(line) == split(line, ",")[4]
FieldChannel(line) == split(line, ",")[5]
FieldPayload(line) == split(line, ",")[6]
FieldFill(line) == split(split(line, ",")[7], "*")[1]

\* the line starts with !AIVDM or !AIVDO
IsAIS(line) ==
    \/ startswith(line, <<"!">> \o AIVDM)
    \/ startswith(line, <<"!">> \o AIVDO)

\* the line is a sentence of the input grammar: digits 1..9 for total and
\* index, an optional digit for the sequential id, channel A, B or empty,
\* payload characters in 48..119, a fill digit 0..5
IsSentence(line) ==
    /\ IsAIS(line)
    /\ Len(split(line, ",")) = 7
    /\ Len(FieldTotal(line)) = 1 /\ Ord[FieldTotal(line)[1]] \in 49..57
    /\ Len(FieldIndex(line)) = 1 /\ Ord[FieldIndex(line)[1]] \in 49..57
    /\ \/ FieldSeq(line) = <<>>
       \/ Len(FieldSeq(line)) = 1 /\ IsDigit(FieldSeq(line)[1])
    /\ FieldChannel(line) \in {<<"A">>, <<"B">>, <<>>}
    /\ \A i \in 1..Len(FieldPayload(line)) :
           Ord[FieldPayload(line)[i]] \in 48..119
    /\ Len(FieldFill(line)) = 1 /\ Ord[FieldFill(line)[1]] \in 48..53
    /\ find(line, "*") > 0

\* the result kind of a returned value: None stands for Ignored and for every
\* envelope error, the partial marker for Pending, a decoded record for
\* Complete unless it carries an error or is marked not decoded
ResultKind(r) ==
    IF "None" \in DOMAIN r THEN "None"
    ELSE IF "partial" \in DOMAIN r THEN "Pending"
    ELSE IF "msg_type" \notin DOMAIN r THEN "insufficient-length"
    ELSE IF r.not_decoded /\ ~r.known_type THEN "unknown-type"
    ELSE IF r.not_decoded \/ r.error # "" THEN "insufficient-length"
    ELSE "Complete"

-----------------------------------------------------------------------------
(* Expiry: fragments stop arriving, the clock and the sweep go on *)

\* a fragment arrives while the clock leaves its entry the time to expire
ParseEarly ==
    /\ now + timeout <= MaxTime
    /\ \E line \in FragmentLines : Parse(line)

\* the clock goes on for a timeout after the last arrival
TickOn == \E d \in TickSteps : Advance(d, MaxTime + timeout)

NextExpiry == ParseEarly \/ Cleanup \/ TickOn

\* time passes, and periodic_cleanup calls the sweep again and again
SpecExpiry ==
    Init /\ [][NextExpiry]_vars /\ WF_vars(TickOn) /\ WF_vars(Cleanup)

\* the keys of FragmentLines
FragmentKeys == {<<"3", "_", "A">>, <<"0", "_", "A">>}

-----------------------------------------------------------------------------
(* Groups that are never completed *)

\* the number of groups opened
FloodSize == 257

\* the decimal numeral of n
RECURSIVE Decimal(_)
Decimal(n) == IF n < 10 THEN Digit(n) ELSE Decimal(n \div 10) \o Digit(n % 10)

\* the first fragment of a group of two under sequential id n
FirstFragment(n) == Fragment(<<"2">>, <<"1">>, Decimal(n), <<"1">>, 0)

\* the first fragment of one more group arrives
ParseNew ==
    /\ Cardinality(DOMAIN multipart_messages) < FloodSize
    /\ Parse(FirstFragment(Cardinality(DOMAIN multipart_messages)))

NextFlood == ParseNew \/ Cleanup

SpecFlood == Init /\ [][NextFlood]_vars

-----------------------------------------------------------------------------
(* Two decoder instances *)

\* the sentences parsed through the instances: the fragments of a group of
\* two, the second one with either of two payloads
InstanceLines ==
    { Fragment(<<"2">>, <<"1">>, <<"3">>, <<"1">>, 0),
      Fragment(<<"2">>, <<"2">>, <<"3">>, <<"1">>, 0),
      Fragment(<<"2">>, <<"2">>, <<"3">>, <<"5">>, 0) }

\* d.parse_nmea_message(line): the method is static and works on the table
\* of the class; owned[d] follows the calls made through d alone
ParseVia(d, line) ==
    /\ ParseCall(line)
    /\ decoder' = d
    /\ owned' = [owned EXCEPT
                   ![d] = parse_nmea_message(line, owned[d], now).mm]
    /\ UNCHANGED delivery

\* d.cleanup_old_multipart()
CleanupVia(d) ==
    /\ CleanupCall
    /\ decoder' = d
    /\ owned' = [owned EXCEPT ![d] = cleanup_old_multipart(owned[d], now)]

ParseViaAny == \E d \in Decoders, line \in InstanceLines : ParseVia(d, line)

CleanupViaAny == \E d \in Decoders : CleanupVia(d)

NextInstances == ParseViaAny \/ CleanupViaAny \/ Tick

SpecInstances == Init /\ [][NextInstances]_vars

-----------------------------------------------------------------------------
(* The two threads of app.py on the one table *)

\* the sentences the listener receives: both fragments of a group of two,
\* the first fragment of another group, a single-sentence message
ThreadLines ==
    { Fragment(<<"2">>, <<"1">>, <<"3">>, <<"1">>, 0),
      Fragment(<<"2">>, <<"2">>, <<"3">>, <<"1">>, 0),
      OtherKeyLine,
      Single(<<"1">>, <<"1">>, <<"0">>, 0) }

\* time.sleep(300) of periodic_cleanup
cleanup_sleep == 300

\* the seconds process_message lets pass between two sweeps of its own
listener_cleanup_interval == 60

\* thread t executes one statement: it moves to label with locals f and
\* leaves the table as mm
Step(t, label, f, mm) ==
    /\ pc' = [pc EXCEPT ![t] = label]
    /\ frame' = [frame EXCEPT ![t] = f]
    /\ multipart_messages' = mm
    /\ UNCHANGED <<now, op, nmea_message, result, keys_to_remove, delivery,
                   call, instances>>

\* the locals of a thread between two calls: what outlives the call
Idle(f) ==
    [NoFrame EXCEPT !.has_last_cleanup = f.has_last_cleanup,
                    !.last_cleanup = f.last_cleanup, !.wake = f.wake]

\* parse_nmea_message returns ret to process_message, the table left as mm
ParseReturns(ret, mm) ==
    /\ pc' = [pc EXCEPT !["listener"] = "idle"]
    /\ frame' = [frame EXCEPT !["listener"] = Idle(frame["listener"])]
    /\ multipart_messages' = mm
    /\ op' = "parse"
    /\ nmea_message' = frame["listener"].message
    /\ result' = ret
    /\ keys_to_remove' = {}
    /\ UNCHANGED <<now, delivery, call, instances>>

\* UDPListener.run receives a sentence and process_message starts on it:
\* the sweep first when none was made for listener_cleanup_interval
Receive(line) ==
    /\ pc["listener"] = "idle"
    /\ LET f == [frame["listener"] EXCEPT !.message = line, !.received = now]
           due == \/ ~f.has_last_cleanup
                  \/ now - f.last_cleanup > listener_cleanup_interval
       IN  Step("listener", IF due THEN "sweep_start" ELSE "parse_begin", f,
                multipart_messages)

ReceiveAny == \E line \in ThreadLines : Receive(line)

\* periodic_cleanup comes to its call of cleanup_old_multipart
CleanerWakes ==
    /\ pc["cleaner"] = "idle"
    /\ now >= frame["cleaner"].wake
    /\ Step("cleaner", "sweep_start", frame["cleaner"], multipart_messages)

\* cleanup_old_multipart returns to thread t
SweepReturns(t) ==
    IF t = "cleaner"
    THEN Step(t, "idle", [Idle(frame[t]) EXCEPT !.wake = now + cleanup_sleep],
              multipart_messages)
    ELSE Step(t, "parse_begin",
              [frame[t] EXCEPT !.has_last_cleanup = TRUE,
                               !.last_cleanup = frame[t].received],
              multipart_messages)

\* cleanup_old_multipart raises in thread t: periodic_cleanup prints the
\* error and sleeps, UDPListener.run prints it and drops the sentence
SweepRaises(t) ==
    IF t = "cleaner"
    THEN Step(t, "idle", [Idle(frame[t]) EXCEPT !.wake = now + cleanup_sleep],
              multipart_messages)
    ELSE Step(t, "idle", Idle(frame[t]), multipart_messages)

\* current_time = time.time(); keys_to_remove = []; the iterator of
\* multipart_messages.items() is made
SweepStart(t) ==
    /\ pc[t] = "sweep_start"
    /\ Step(t, "sweep_iter",
            [frame[t] EXCEPT !.current_time = now, !.remove = {},
                             !.size = Cardinality(DOMAIN multipart_messages),
                             !.todo = DOMAIN multipart_messages],
            multipart_messages)

\* one turn of "for key, message in ...items()": RuntimeError when the table
\* changed size since the iterator was made
SweepIter(t) ==
    /\ pc[t] = "sweep_iter"
    /\ IF Cardinality(DOMAIN multipart_messages) # frame[t].size
       THEN SweepRaises(t)
       ELSE IF frame[t].todo \cap DOMAIN multipart_messages = {}
       THEN Step(t, "sweep_del", frame[t], multipart_messages)
       ELSE \E key \in frame[t].todo \cap DOMAIN multipart_messages :
                Step(t, "sweep_iter",
                     [frame[t] EXCEPT
                        !.todo = @ \ {key},
                        !.remove = IF Expired(multipart_messages[key],
                                              frame[t].current_time)
                                   THEN @ \cup {key} ELSE @],
                     multipart_messages)

\* one turn of "for key in keys_to_remove: del ...[key]": KeyError when the
\* key is gone
SweepDelete(t) ==
    /\ pc[t] = "sweep_del"
    /\ IF frame[t].remove = {}
       THEN SweepReturns(t)
       ELSE \E key \in frame[t].remove :
                IF key \notin DOMAIN multipart_messages
                THEN SweepRaises(t)
                ELSE Step(t, "sweep_del",
                          [frame[t] EXCEPT !.remove = @ \ {key}],
                          Delete(multipart_messages, key))

\* parse_nmea_message up to message_key = ...: a sentence that is not a
\* fragment of a group is answered without a look at the table
ParseBegin ==
    /\ pc["listener"] = "parse_begin"
    /\ LET line == frame["listener"].message
           whole == parse_nmea_message(line, multipart_messages, now)
       IN  IF \/ ~IsAIS(line)
              \/ ~HasFields(line)
              \/ ~int(FieldTotal(line)).ok
              \/ ~int(FieldIndex(line)).ok
              \/ ~int(FieldFill(line)).ok
              \/ ~IsMultipart(int(FieldTotal(line)).val)
           THEN ParseReturns(whole.ret, multipart_messages)
           ELSE LET message_id == IF FieldSeq(line) # <<>> THEN FieldSeq(line)
                                  ELSE <<"0">>
                IN  Step("listener", "init_entry",
                         [frame["listener"] EXCEPT
                            !.total_fragments = int(FieldTotal(line)).val,
                            !.fragment_number = int(FieldIndex(line)).val,
                            !.message_id = message_id,
                            !.channel = FieldChannel(line),
                            !.payload = FieldPayload(line),
                            !.current_time = now,
                            !.key = message_key(message_id,
                                                FieldChannel(line))],
                         multipart_messages)

\* if message_key not in multipart_messages: multipart_messages[...] = {...}
InitEntry ==
    /\ pc["listener"] = "init_entry"
    /\ LET f == frame["listener"]
       IN  Step("listener", "store", f,
                [k \in DOMAIN multipart_messages \cup {f.key} |->
                    IF k = f.key
                    THEN EntryFor(multipart_messages, f.key,
                                  f.total_fragments, f.current_time)
                    ELSE multipart_messages[k]])

\* multipart_messages[message_key]['fragments'][fragment_number] = payload
Store ==
    /\ pc["listener"] = "store"
    /\ LET f == frame["listener"]
           mm == multipart_messages
       IN  IF f.key \notin DOMAIN mm
           THEN ParseReturns(None, mm)
           ELSE Step("listener", "stamp", f,
                     [mm EXCEPT ![f.key].fragments =
                         [i \in DOMAIN @ \cup {f.fragment_number} |->
                             IF i = f.fragment_number THEN f.payload
                             ELSE @[i]]])

\* multipart_messages[message_key]['timestamp'] = current_time
Stamp ==
    /\ pc["listener"] = "stamp"
    /\ LET f == frame["listener"]
           mm == multipart_messages
       IN  IF f.key \notin DOMAIN mm
           THEN ParseReturns(None, mm)
           ELSE Step("listener", "check", f,
                     [mm EXCEPT ![f.key].timestamp = f.current_time])

\* if len(multipart_messages[message_key]['fragments']) == total_fragments
Check ==
    /\ pc["listener"] = "check"
    /\ LET f == frame["listener"]
           mm == multipart_messages
       IN  IF f.key \notin DOMAIN mm
           THEN ParseReturns(None, mm)
           ELSE IF HaveAllFragments(mm[f.key], f.total_fragments,
                                    f.fragment_number)
           THEN Step("listener", "assemble", f, mm)
           ELSE ParseReturns(Partial(f.message_id), mm)

\* the assembly loop and decode_payload(assembled_payload)
Assemble ==
    /\ pc["listener"] = "assemble"
    /\ LET f == frame["listener"]
           mm == multipart_messages
       IN  IF \/ f.key \notin DOMAIN mm
              \/ \E i \in 1..f.total_fragments :
                     i \notin DOMAIN mm[f.key].fragments
           THEN ParseReturns(None, mm)
           ELSE Step("listener", "delete",
                     [f EXCEPT !.decoded = WithMetadata(
                         decode_payload(
                             assembled_payload(mm[f.key].fragments, 1,
                                               f.total_fragments),
                             f.current_time),
                         f.channel,
                         <<"MULTIPART", f.message_id, f.total_fragments>>)],
                     mm)

\* del multipart_messages[message_key]; return decoded
DeleteEntry ==
    /\ pc["listener"] = "delete"
    /\ LET f == frame["listener"]
           mm == multipart_messages
       IN  IF f.key \notin DOMAIN mm
           THEN ParseReturns(None, mm)
           ELSE ParseReturns(f.decoded, Delete(mm, f.key))

Sweep == \E t \in Threads : SweepStart(t) \/ SweepIter(t) \/ SweepDelete(t)

\* time passes between the calls: a call takes no time to speak of
TickBetweenCalls == (\A t \in Threads : pc[t] = "idle") /\ Tick

NextThreads ==
    \/ ReceiveAny \/ ParseBegin \/ InitEntry \/ Store \/ Stamp \/ Check
    \/ Assemble \/ DeleteEntry \/ CleanerWakes \/ Sweep \/ TickBetweenCalls

SpecThreads == Init /\ [][NextThreads]_vars

\* the listener is inside parse_nmea_message, past the computation of the key
InParse ==
    pc["listener"] \in {"init_entry", "store", "stamp", "check", "assemble",
                        "delete"}

\* thread t is inside cleanup_old_multipart
InSweep(t) == pc[t] \in {"sweep_iter", "sweep_del"}

-----------------------------------------------------------------------------
(* Claims *)

\* C1: when the fragments of a group (total above 1, indices 1..total, one
\* key not pending before) have all been parsed, in whatever order, every
\* call but the last returned the pending marker and the last returned a
\* decoded record with the fields that parsing them in ascending index order
\* yields.
C1_AnyOrderSameRecord ==
    (group # NoGroup /\ Len(order) = group.total) =>
        /\ \A j \in 1..(group.total - 1) : ResultKind(outcomes[j]) = "Pending"
        /\ ResultKind(outcomes[group.total]) \notin {"None", "Pending"}
        /\ DecodedFields(outcomes[group.total])
             = DecodedFields(AscendingResult(group, 1, <<>>, 0))

\* C1 witness: a group of three delivered last index first, decoded to a
\* complete position report
C1_Witness ==
    /\ group # NoGroup
    /\ group.total = 3
    /\ order = <<3, 1, 2>>
    /\ ResultKind(outcomes[3]) = "Complete"

\* C2: a sentence with a valid checksum and total 1 is answered with a
\* complete record, an insufficient-length error or an unknown-type error,
\* never with the pending marker, whatever the pending table holds.
C2_SingleNeverPending ==
    (/\ op = "parse"
     /\ IsSentence(nmea_message)
     /\ ChecksumValid(nmea_message)
     /\ int(FieldTotal(nmea_message)).val = 1)
    => ResultKind(result) \in {"Complete", "insufficient-length", "unknown-type"}

\* C2 witness: a single sentence decoded to a complete record while another
\* message is pending
C2_Witness ==
    /\ op = "parse"
    /\ IsSentence(nmea_message)
    /\ ChecksumValid(nmea_message)
    /\ int(FieldTotal(nmea_message)).val = 1
    /\ ResultKind(result) = "Complete"
    /\ DOMAIN multipart_messages # {}

\* C4 as stated: after the sweep at time T no entry has a timestamp at or
\* before T - timeout.
C4_NoEntryAtOrBeforeTTL ==
    op = "cleanup" =>
        \A key \in DOMAIN multipart_messages :
            ~(multipart_messages[key].timestamp <= now - timeout)

\* C4 amended: after the sweep at time T no entry has a timestamp before
\* T - timeout; an entry aged exactly timeout stays.
C4_NoEntryBeforeTTL ==
    op = "cleanup" =>
        \A key \in DOMAIN multipart_messages :
            ~(multipart_messages[key].timestamp < now - timeout)

\* C4 witness: a sweep that removed an entry and left one aged exactly timeout
C4_Witness ==
    /\ op = "cleanup"
    /\ keys_to_remove # {}
    /\ \E key \in DOMAIN multipart_messages :
           multipart_messages[key].timestamp = now - timeout

\* C5: the sweep leaves every entry younger than timeout in the table as it
\* was, and the table after the sweep holds nothing but entries that were
\* there before, unchanged.
C5_GcRetainsUnchanged ==
    [][op' = "cleanup" =>
          /\ \A key \in DOMAIN multipart_messages :
                 multipart_messages[key].timestamp > now' - timeout
                 => /\ key \in DOMAIN multipart_messages'
                    /\ multipart_messages'[key] = multipart_messages[key]
          /\ \A key \in DOMAIN multipart_messages' :
                 /\ key \in DOMAIN multipart_messages
                 /\ multipart_messages'[key] = multipart_messages[key]]_vars

\* C5 witness: a sweep that removed an entry and kept a younger one
C5_Witness ==
    /\ op = "cleanup"
    /\ keys_to_remove # {}
    /\ \E key \in DOMAIN multipart_messages :
           multipart_messages[key].timestamp > now - timeout

\* the sum of the lengths of the payloads stored in fragments
RECURSIVE StoredLength(_, _)
StoredLength(fragments, indices) ==
    IF indices = {} THEN 0
    ELSE LET i == CHOOSE i \in indices : TRUE
         IN  Len(fragments[i]) + StoredLength(fragments, indices \ {i})

\* the key a sentence is filed under
KeyOf(line) ==
    message_key(IF FieldSeq(line) # <<>> THEN FieldSeq(line) ELSE <<"0">>,
                FieldChannel(line))

\* the fragments stored under the key of a sentence once the sentence is
\* added to table mm
FragmentsWith(mm, line) ==
    LET old == IF KeyOf(line) \in DOMAIN mm
               THEN mm[KeyOf(line)].fragments ELSE <<>>
        index == int(FieldIndex(line)).val
    IN  [i \in DOMAIN old \cup {index} |->
            IF i = index THEN FieldPayload(line) ELSE old[i]]

\* the total that the entry of the key of a sentence expects
ExpectedTotal(mm, line) ==
    IF KeyOf(line) \in DOMAIN mm THEN mm[KeyOf(line)].total
    ELSE int(FieldTotal(line)).val

\* C3 as stated: a fragment whose total differs from the total its key's
\* pending entry expects is answered with an error and the entry is dropped.
C3_MismatchDropsEntry ==
    [][(/\ op' = "parse"
        /\ IsSentence(nmea_message')
        /\ int(FieldTotal(nmea_message')).val > 1
        /\ KeyOf(nmea_message') \in DOMAIN multipart_messages
        /\ multipart_messages[KeyOf(nmea_message')].total
             # int(FieldTotal(nmea_message')).val)
       => /\ ResultKind(result') = "None"
          /\ KeyOf(nmea_message') \notin DOMAIN multipart_messages']_vars

\* C6 as stated: when the fragment just stored brings the number of stored
\* fragments of its key to the expected total, the call returns a decoded
\* record and the key is gone from the table.
C6_CompleteRemovesKey ==
    [][(/\ op' = "parse"
        /\ IsSentence(nmea_message')
        /\ int(FieldTotal(nmea_message')).val > 1
        /\ Cardinality(DOMAIN FragmentsWith(multipart_messages, nmea_message'))
             = ExpectedTotal(multipart_messages, nmea_message'))
       => /\ ResultKind(result') \notin {"None", "Pending"}
          /\ KeyOf(nmea_message') \notin DOMAIN multipart_messages']_vars

\* C7 as stated: a sentence whose checksum is not the XOR of its characters
\* is answered with an error, and the table is left as it was.
C7_BadChecksumRejected ==
    [][(/\ op' = "parse"
        /\ IsAIS(nmea_message')
        /\ HasFields(nmea_message')
        /\ ~ChecksumValid(nmea_message'))
       => /\ ResultKind(result') = "None"
          /\ multipart_messages' = multipart_messages]_vars

\* total outside 1..9 or index outside 1..total
BadCounters(line) ==
    /\ IsAIS(line)
    /\ HasFields(line)
    /\ int(FieldTotal(line)).ok
    /\ int(FieldIndex(line)).ok
    /\ \/ int(FieldTotal(line)).val \notin 1..9
       \/ int(FieldIndex(line)).val \notin 1..int(FieldTotal(line)).val

\* C8 as stated: a sentence with bad fragment counters is answered with an
\* error, and the table is left as it was.
C8_BadCountersRejected ==
    [][(op' = "parse" /\ BadCounters(nmea_message'))
       => /\ ResultKind(result') = "None"
          /\ multipart_messages' = multipart_messages]_vars

\* C9 as stated: the bit buffer decoded for a sentence has 6 bits for each
\* payload character (of all fragments, for the last sentence of a group)
\* less the fill bits of that sentence.
C9_BufferLengthLessFill ==
    [][(/\ op' = "parse"
        /\ IsSentence(nmea_message')
        /\ "bits" \in DOMAIN result')
       => Len(result'.bits)
            = 6 * (IF int(FieldTotal(nmea_message')).val = 1
                   THEN Len(FieldPayload(nmea_message'))
                   ELSE LET stored == FragmentsWith(multipart_messages,
                                                    nmea_message')
                        IN  StoredLength(stored, DOMAIN stored))
              - int(FieldFill(nmea_message')).val]_vars

\* C10 as stated: a payload with a character outside 48..119 is answered
\* with an error and no decoded record.
C10_BadArmorRejected ==
    (/\ op = "parse"
     /\ IsAIS(nmea_message)
     /\ HasFields(nmea_message)
     /\ int(FieldTotal(nmea_message)).val = 1
     /\ int(FieldIndex(nmea_message)).ok
     /\ int(FieldFill(nmea_message)).ok
     /\ \E i \in 1..Len(FieldPayload(nmea_message)) :
            Ord[FieldPayload(nmea_message)[i]] \notin 48..119)
    => ResultKind(result) = "None"

\* the minimum length in bits stated for a message type, 0 when none is
StatedMinimum(message_type) ==
    IF message_type \in {1, 2, 3, 4, 9, 11, 18, 22} THEN 168
    ELSE IF message_type = 5 THEN 424
    ELSE IF message_type = 15 THEN 88
    ELSE IF message_type = 16 THEN 96
    ELSE IF message_type = 19 THEN 312
    ELSE IF message_type = 21 THEN 272
    ELSE IF message_type = 23 THEN 160
    ELSE IF message_type = 27 THEN 96
    ELSE 0

\* a type decoder was called on the record and passed its length guard, so
\* that the record holds fields of its type
TypeFieldsDecoded(r) == ~r.not_decoded /\ r.error = ""

\* C11: a payload whose first six bits give a message type outside 1..27 is
\* answered with the unknown-type error carrying that type, never with a
\* decoded record.
C11_UnknownTypeError ==
    (/\ call.fn = "decode_payload"
     /\ RawType(call.payload) \notin 1..27)
    => /\ ResultKind(call.ret) = "unknown-type"
       /\ call.ret.msg_type = RawType(call.payload)

\* C11 witness: a payload of type 63 answered with the unknown-type error
C11_Witness ==
    /\ call.fn = "decode_payload"
    /\ RawType(call.payload) = 63
    /\ ResultKind(call.ret) = "unknown-type"
    /\ call.ret.msg_type = 63

\* C12: a payload of a type with a stated minimum length that is shorter
\* than the minimum is answered with the insufficient-length error carrying
\* the type, and no field of the type is decoded from it.
C12_ShortPayloadError ==
    (/\ call.fn = "decode_payload"
     /\ 6 * Len(call.payload) < StatedMinimum(RawType(call.payload)))
    => /\ ResultKind(call.ret) = "insufficient-length"
       /\ call.ret.msg_type = RawType(call.payload)
       /\ ~TypeFieldsDecoded(call.ret)

\* C12 witness: an AtoN report (type 21) of 270 bits, two short of its
\* minimum, answered with the error of its decoder
C12_Witness ==
    /\ call.fn = "decode_payload"
    /\ RawType(call.payload) = 21
    /\ Len(call.payload) = 45
    /\ call.ret.error = "Message too short for AtoN Report"

\* C13: the sweep and the parse are serialized on the table: the periodic
\* sweep is never inside cleanup_old_multipart while the listener is inside
\* parse_nmea_message, the entry a parse has inserted is there until its
\* completeness check, and the table keeps its size while a sweep iterates.
C13_GcSerializedWithParse ==
    /\ ~(InParse /\ InSweep("cleaner"))
    /\ pc["listener"] \in {"store", "stamp", "check"}
         => frame["listener"].key \in DOMAIN multipart_messages
    /\ \A t \in Threads :
         pc[t] = "sweep_iter"
           => Cardinality(DOMAIN multipart_messages) = frame[t].size

\* C14: the value a parse call through one decoder instance returns is the
\* value it returns on the fragments parsed through that instance alone:
\* calls through another instance do not show in it.
C14_InstancesIndependent ==
    [][\A d \in Decoders, line \in InstanceLines :
          ParseVia(d, line)
            => result' = parse_nmea_message(line, owned[d], now).ret]_vars

\* C15: the pending table never holds more than max_pending_entries = 256
\* entries.
C15_PendingCapped == Cardinality(DOMAIN multipart_messages) <= 256

\* C16: when fragments have stopped arriving while time passes and the sweep
\* keeps being called, an entry of the pending table is eventually removed.
C16_PendingExpires ==
    \A key \in FragmentKeys :
        (key \in DOMAIN multipart_messages)
            ~> (key \notin DOMAIN multipart_messages)

\* C16 witness: a sweep has removed the incomplete entry of key 3_A, which
\* held one fragment of its group
C16_Witness ==
    /\ op = "cleanup"
    /\ <<"3", "_", "A">> \in keys_to_remove
    /\ <<"3", "_", "A">> \notin DOMAIN multipart_messages
    /\ now > MaxTime

\* the character stated for a six-bit code
StatedChar(v) ==
    IF v = 0 THEN "@"
    ELSE IF v <= 31 THEN Printable[v + 64 - 31]
    ELSE Printable[v - 31]

\* C17: every six-bit code 0..63 is decoded to the character stated for it
\* ('@' for 0, chr(v + 64) for 1..31, chr(v) for 32..63), and two codes are
\* decoded to the same character only when they are the same code.
C17_SixbitInjective ==
    call.fn = "decode_sixbit_ascii"
    => /\ Len(call.untrimmed) = Len(call.codes)
       /\ \A i \in 1..Len(call.codes) :
             call.untrimmed[i] = StatedChar(call.codes[i])
       /\ \A i, j \in 1..Len(call.codes) :
             call.untrimmed[i] = call.untrimmed[j]
               => call.codes[i] = call.codes[j]

\* C17 witness: the codes 31 and 63 decoded to '_' and '?'
C17_Witness ==
    /\ call.fn = "decode_sixbit_ascii"
    /\ call.codes = <<31, 63>>
    /\ call.untrimmed = <<"_", "?">>

\* s without the characters of chars at its end
rstrip(s, chars) ==
    LET keep == {i \in 1..Len(s) : s[i] \notin chars}
    IN  IF keep = {} THEN <<>>
        ELSE SubSeq(s, 1, CHOOSE i \in keep : \A j \in keep : i >= j)

\* C18: the decoder returns the decoded characters without their trailing
\* '@' and then without their trailing spaces, a prefix of the decoded
\* characters.
C18_TrailingTrimOnly ==
    call.fn = "decode_sixbit_ascii"
    => /\ call.ret = rstrip(rstrip(call.untrimmed, {"@"}), {" "})
       /\ call.ret = SubSeq(call.untrimmed, 1, Len(call.ret))

\* the raw value stated for "not available" and the divisor stated for a
\* coordinate variant
StatedSentinel(variant, axis) ==
    IF variant = "standard"
    THEN (IF axis = "longitude" THEN 108600000 ELSE 54600000)
    ELSE IF variant = "long_range"
    THEN (IF axis = "longitude" THEN 108600 ELSE 54600)
    ELSE IF variant = "dgnss"
    THEN (IF axis = "longitude" THEN 18100 ELSE 9100)
    ELSE (IF axis = "longitude" THEN 1810 ELSE 910)

StatedDivisor(variant) == IF variant = "standard" THEN 600000 ELSE 600

\* the magnitude of raw / divisor is at most 180 degrees for a longitude,
\* 90 degrees for a latitude
StatedWithinRange(variant, axis, raw) ==
    LET limit == (IF axis = "longitude" THEN 180 ELSE 90)
                 * StatedDivisor(variant)
    IN  -limit <= raw /\ raw <= limit

\* C19: in each coordinate variant the raw value of "not available" is
\* decoded to the status unavailable without a value, and every raw value
\* that converts to a magnitude within range is decoded to the status valid.
C19_SentinelAndValid ==
    call.fn = "validate_and_convert_coordinates"
    => \A c \in call.coordinates :
         /\ c.raw = StatedSentinel(call.variant, c.axis)
              => /\ c.status \in
                      {"Not available",
                       "Position older than 6 hours or not available"}
                 /\ c.value = None
         /\ StatedWithinRange(call.variant, c.axis, c.raw)
              => c.status = "Valid"

\* the raw values of a field of the position report that are out of range
OutOfRange(field) ==
    IF field = "longitude" THEN {x \in ReportLons : x < -108000000 \/ x > 108000000} \ {108600000}
    ELSE IF field = "latitude" THEN {y \in ReportLats : y < -54000000 \/ y > 54000000} \ {54600000}
    ELSE IF field = "cog" THEN {c \in ReportCogs : c > 3600}
    ELSE {h \in ReportHdgs : h >= 360 /\ h <= 510}

\* the record of the report of call c with the raw value of field replaced
\* by v
ReportWith(c, field, v) ==
    decode_position_report_class_a(
        ReportBits(IF field = "longitude" THEN v ELSE c.lon_raw,
                   IF field = "latitude" THEN v ELSE c.lat_raw,
                   IF field = "cog" THEN v ELSE c.cog_raw,
                   IF field = "true_heading" THEN v ELSE c.hdg_raw))

\* the raw value and the status of a field in call c
RawOf(c, field) ==
    IF field = "longitude" THEN c.lon_raw
    ELSE IF field = "latitude" THEN c.lat_raw
    ELSE IF field = "cog" THEN c.cog_raw
    ELSE c.hdg_raw

StatusOf(c, field) ==
    IF field = "longitude" THEN c.ret.longitude_status
    ELSE IF field = "latitude" THEN c.ret.latitude_status
    ELSE IF field = "cog" THEN c.ret.cog_status
    ELSE c.ret.true_heading_status

\* C20: a longitude, latitude, course or heading of a position report that
\* is out of range is tagged out of range, and the record keeps its raw
\* value: another out-of-range raw value gives another record.
C20_OutOfRangeKeepsRaw ==
    call.fn = "decode_position_report_class_a"
    => \A field \in {"longitude", "latitude", "cog", "true_heading"} :
         RawOf(call, field) \in OutOfRange(field)
           => /\ StatusOf(call, field) = "Invalid value"
              /\ \A v \in OutOfRange(field) \ {RawOf(call, field)} :
                    ReportWith(call, field, v) # call.ret

\* the sub-format a communication state record was decoded in: the SOTDMA
\* record carries the slot time-out, the ITDMA record the slot increment
SubFormat(comm_state) ==
    IF "slot_timeout" \in DOMAIN comm_state
       /\ "slot_increment" \notin DOMAIN comm_state THEN "SOTDMA"
    ELSE IF "slot_increment" \in DOMAIN comm_state
            /\ "slot_timeout" \notin DOMAIN comm_state THEN "ITDMA"
    ELSE "neither"

\* C21: the communication state of messages 1, 2, 4, 9 and 11 is decoded as
\* SOTDMA whatever the payload bits, that of message 3 as ITDMA, and that of
\* message 18 as SOTDMA when bit 148 is 0 and as ITDMA when it is 1.
C21_SubFormatByType ==
    call.fn = "communication_state"
    => /\ call.msg_type \in {1, 2, 4, 9, 11} => SubFormat(call.ret) = "SOTDMA"
       /\ call.msg_type = 3 => SubFormat(call.ret) = "ITDMA"
       /\ call.msg_type = 18
            => SubFormat(call.ret)
                 = (IF call.bit148 = 0 THEN "SOTDMA" ELSE "ITDMA")


\* the record carries the length, the width and the four reference offsets
\* of the dimensions A, B, C, D
CarriesDimensions(r, a, b, c, d) ==
    /\ {"length", "width", "ref_point_distance_from_bow",
        "ref_point_distance_from_stern", "ref_point_distance_from_port",
        "ref_point_distance_from_starboard"} \subseteq DOMAIN r
    /\ r.length = a + b
    /\ r.width = c + d
    /\ r.ref_point_distance_from_bow = a
    /\ r.ref_point_distance_from_stern = b
    /\ r.ref_point_distance_from_port = c
    /\ r.ref_point_distance_from_starboard = d

\* C22: dimensions A, B, C, D all zero are decoded as unknown or virtual;
\* A = 0, C = 0, B > 0, D > 0 as reference point unknown with the dimensions
\* known; in every other case the record carries length = A + B and
\* width = C + D with the four reference offsets.
C22_DimensionsCases ==
    call.fn = "get_positions_dimensions"
    => LET a == call.dim_a
           b == call.dim_b
           c == call.dim_c
           d == call.dim_d
       IN  IF a = 0 /\ b = 0 /\ c = 0 /\ d = 0
           THEN call.ret.dimensions_status = "Not available or virtual AtoN"
           ELSE IF a = 0 /\ c = 0 /\ b > 0 /\ d > 0
           THEN /\ call.ret.dimensions_status
                     = "Reference point not available, ship dimensions provided"
                /\ CarriesDimensions(call.ret, a, b, c, d)
           ELSE CarriesDimensions(call.ret, a, b, c, d)


\* the flags of the record of a class B report
Flags(r) ==
    [k \in {"class_b_unit", "class_b_display", "class_b_dsc", "class_b_band",
            "class_b_msg22", "mode_flag", "raim_flag", "dte"} |-> r[k]]

\* C23: in the record of a type 19 message of 312 bits the RAIM flag is bit
\* 305, DTE is bit 306 and the assigned-mode flag is bit 307, and no flag is
\* taken from the bits of the vessel name: the flags are those of the same
\* message with another name.
C23_ExtendedFlags ==
    call.fn = "decode_extended_position_class_b"
    => /\ Len(ExtendedBits(call.first, call.raim, call.dte, call.assigned))
            = 312
       /\ call.ret.raim_flag = call.raim
       /\ call.ret.dte = call.dte
       /\ call.ret.mode_flag = call.assigned
       /\ \A c \in 0..63 :
             Flags(call.ret)
               = Flags(decode_extended_position_class_b(
                           ExtendedBits(c, call.raim, call.dte,
                                        call.assigned)))


\* C24: every type 26 message, addressed or broadcast, with or without an
\* application identifier, has its final 20 bits (beyond the head, at
\* positions from 40 on) decoded as a communication state, the selector
\* first and 19 bits of state after it, and its binary_data ends before
\* those 20 bits.
C24_FinalBitsAreCommState ==
    call.fn = "decode_binary_message"
    => LET n == Len(call.bits)
           start == DataStart26(call.dest_indicator, call.binary_flag)
       IN  /\ n - 20 >= 40
           /\ "communication_state" \in DOMAIN call.ret
           /\ call.ret.communication_state
                = decode_communication_state(
                      Bits(call.selector, 1) \o Bits(call.state, 19),
                      call.selector, 1)
           /\ "binary_data" \in DOMAIN call.ret
           /\ call.ret.binary_data = Slice(call.bits, start, n - 20)


\* the first destination of the addressed type 22 message with halves m, l
FirstDestination(m, l) ==
    decode_channel_management(Bits22(1, m, l, 0, 0)).destination_mmsi_1

\* C25: each destination MMSI of an addressed type 22 message is a 30-bit
\* value in which the bits of the 18-bit half and of the 17-bit half do not
\* overlap (the value is the sum of the two shifted halves), so that other
\* halves give another MMSI.
C25_HalvesDoNotOverlap ==
    (call.fn = "decode_channel_management" /\ call.addressed = 1)
    => /\ call.ret.destination_mmsi_1 < Pow2(30)
       /\ call.ret.destination_mmsi_2 < Pow2(30)
       /\ call.ret.destination_mmsi_1
            = ShiftLeft(call.msb_1, 12) + ShiftLeft(call.lsb_1, 5)
       /\ call.ret.destination_mmsi_2
            = ShiftLeft(call.msb_2, 12) + ShiftLeft(call.lsb_2, 5)
       /\ \A m \in Msbs, l \in Lsbs :
             FirstDestination(m, l) = call.ret.destination_mmsi_1
               => (m = call.msb_1 /\ l = call.lsb_1)


\* the sentence is a fragment of a group (total above 1) whose index is
\* already stored under its key in table mm
IsDuplicate(mm, line) ==
    /\ IsSentence(line)
    /\ int(FieldTotal(line)).val > 1
    /\ KeyOf(line) \in DOMAIN mm
    /\ int(FieldIndex(line)).val \in DOMAIN mm[KeyOf(line)].fragments

\* C26: a fragment whose index is already stored for its key overwrites the
\* payload stored for that index and refreshes the timestamp of the entry to
\* the time of arrival; the number of stored fragments stays the same, and
\* the call returns the pending marker while the entry holds fewer fragments
\* than it expects.
C26_DuplicateOverwrites ==
    [][(op' = "parse" /\ IsDuplicate(multipart_messages, nmea_message'))
       => LET key == KeyOf(nmea_message')
              index == int(FieldIndex(nmea_message')).val
              stored == Cardinality(DOMAIN multipart_messages[key].fragments)
          IN  /\ key \in DOMAIN multipart_messages'
              /\ multipart_messages'[key].fragments[index]
                   = FieldPayload(nmea_message')
              /\ multipart_messages'[key].timestamp = now
              /\ Cardinality(DOMAIN multipart_messages'[key].fragments)
                   = stored
              /\ stored < multipart_messages[key].total
                   => ResultKind(result') = "Pending"]_vars


\* C27: every entry of the pending table stores only fragment indices
\* within 1..total of the entry and stores fewer fragments than its total.
C27_EntriesCanComplete ==
    \A key \in DOMAIN multipart_messages :
        /\ DOMAIN multipart_messages[key].fragments
             \subseteq 1..multipart_messages[key].total
        /\ Cardinality(DOMAIN multipart_messages[key].fragments)
             < multipart_messages[key].total


\* the sentence is handled as a single-fragment sentence: its counters and
\* fill are numbers and its total is 1
HandledAsSingle(line) ==
    /\ IsAIS(line)
    /\ HasFields(line)
    /\ int(FieldTotal(line)).ok
    /\ int(FieldIndex(line)).ok
    /\ int(FieldFill(line)).ok
    /\ int(FieldTotal(line)).val = 1

\* C28: a parse call that returns None (the line is ignored or has an
\* envelope error) or that handles a single-fragment sentence leaves the
\* pending table as it was.
C28_NoPendingEffect ==
    [][(/\ op' = "parse"
        /\ \/ ResultKind(result') = "None"
           \/ HandledAsSingle(nmea_message'))
       => multipart_messages' = multipart_messages]_vars


\* C29: fragments of two groups with different keys (one sequential id on
\* two channels, or two ids on one channel) are never combined: an entry of
\* the table holds payloads of the group of its key only, and each call on a
\* fragment of a group returns, but for the time of decoding, what it
\* returns when the group is delivered on its own in the same order, so that
\* the two complete records are those of the two groups.
C29_KeysIndependent ==
    Len(group) = 2 =>
        \A k \in 1..2 :
            /\ LET key == message_key(group[k].seq, group[k].channel)
               IN  key \in DOMAIN multipart_messages
                     => \A i \in DOMAIN multipart_messages[key].fragments :
                            multipart_messages[key].fragments[i]
                              = group[k].payloads[i]
            /\ LET alone == AloneOutcomes(group[k], IndicesOf(k), <<>>)
               IN  \A j \in 1..Cardinality(PositionsOf(k)) :
                       DecodedFields(outcomes[Nth(PositionsOf(k), j)])
                         = DecodedFields(alone[j])

\* C29 witness: the fragments of two groups with one sequential id on
\* channels A and B delivered alternately, each group decoded to its own
\* complete record
C29_Witness ==
    /\ Len(group) = 2
    /\ group[1].seq = group[2].seq
    /\ order = <<<<1, 1>>, <<2, 1>>, <<1, 2>>, <<2, 2>>>>
    /\ ResultKind(outcomes[3]) = "Complete"
    /\ ResultKind(outcomes[4]) = "Complete"
    /\ outcomes[3].bits = binary_data(PayloadE1)
    /\ outcomes[4].bits = binary_data(PayloadE1x)


\* C30: every slice bits[a:b] read while a binary message is decoded lies
\* within the buffer, 0 <= a and b <= length: no field is read through a
\* slice cut short by the end of the buffer.
C30_ReadsWithinBuffer ==
    call.fn = "binary_message"
    => \A r \in call.reads : 0 <= r[1] /\ r[2] <= call.length


====
